---------------------------- MODULE Spec2Model ----------------------------
(***************************************************************************)
(* Model of py_mega-calc: the three sequence engines (factorial,           *)
(* Fibonacci, primes), the primality tests (Miller-Rabin, Baillie-PSW)     *)
(* and the regression estimator.                                           *)
(*                                                                         *)
(* A call of an entry point is a small state machine: Init draws the       *)
(* entry point and its argument, the entry action runs the validation      *)
(* prologue, loop actions run one iteration of a scan each, and the call   *)
(* ends in pc = "done" with either a result or an error kind.              *)
(*                                                                         *)
(* Python integers are unbounded; the model's integers are not, so every   *)
(* input set is bounded so that no intermediate value leaves the range of  *)
(* TLC's integers, and numbers of the top Miller-Rabin tier are kept as    *)
(* three limbs of base 10^9.                                               *)
(***************************************************************************)
EXTENDS Integers, Sequences, FiniteSets, TLC

VARIABLES
    pc,         \* position of the call: "call", "loop", "scan", "sieve", "done"
    op,         \* the entry point that was called
    argKind,    \* Python type of the argument: "int", "float" or "complex"
    arg,        \* numeric value of the argument (x, x.0 or x+0j)
    result,     \* returned value, NoValue until the call returns one
    err,        \* error kind raised to the caller, "none" if none
    work,       \* number of computation steps executed by this call
    checked,    \* TRUE when the returned value went through check_precision
    idx,        \* by_digits: scan index n / prime candidate
    a,          \* _fast_doubling: a
    b,          \* _fast_doubling: b
    i,          \* _fast_doubling: loop counter i
    benchmark_data, \* Estimator.benchmark_data: type label -> samples
    calc_type,  \* the type label of the estimation, "none" outside it
    mr,         \* locals of miller_rabin on a number given as limbs
    bench_inputs,     \* run_micro_benchmark: input_values
    probes,           \* run_micro_benchmark: how each call made so far ended
    results,          \* run_micro_benchmark: results
    now,              \* the clock, in seconds
    thread,           \* per monitored call: the state of its worker thread
    result_container, \* per monitored call: _run_with_timeout's container
    outcome,          \* per monitored call: what the caller got
    frame,            \* locals of the wrappers of the monitored call
    history,          \* the outcome of the first call of the session
    cli               \* cli.main: the arguments and the locals of the run

benchVars == <<bench_inputs, probes, results>>
resourceVars == <<now, thread, result_container, outcome, frame>>
sessionVars == <<benchVars, resourceVars, history, cli>>

vars == <<pc, op, argKind, arg, result, err, work, checked, idx, a, b, i,
          benchmark_data, calc_type, mr, sessionVars>>

NoValue == "NoValue"

(***************************************************************************)
(* Bounds of the model.                                                    *)
(***************************************************************************)
\* arguments range over -NegRange .. Max...
NegRange == 3
MaxFibIndex == 44
MaxFactIndex == 11
MaxSeqDigits == 8
MaxPrimeDigits == 4
MaxPrimeIndex == 40
MaxPrimalityN == 150
MaxSamples == 2
MaxProbes == 3
MaxCalls == 2
MaxTicks == 5
TickSeconds == 150
\* the primality tests are compared with trial division below this number
TrialDivisionRange == 10000

(***************************************************************************)
(* Python built-ins used by the engines.                                   *)
(***************************************************************************)
RECURSIVE StrLen(_)
\* len(str(x)) of an integer x
StrLen(x) ==
    IF x < 0 THEN 1 + StrLen(-x)
    ELSE IF x < 10 THEN 1
    ELSE 1 + StrLen(x \div 10)

RECURSIVE BitLength(_)
\* int.bit_length()
BitLength(x) == IF x = 0 THEN 0 ELSE 1 + BitLength(x \div 2)

\* (n >> s) & 1
BitAt(n, s) == (n \div (2 ^ s)) % 2

RECURSIVE MathFactorial(_)
\* math.factorial(n) for n >= 0
MathFactorial(n) == IF n <= 1 THEN 1 ELSE n * MathFactorial(n - 1)

RECURSIVE IsqrtIter(_, _)
IsqrtIter(n, x) ==
    LET y == (x + n \div x) \div 2
    IN  IF y >= x THEN x ELSE IsqrtIter(n, y)

\* math.isqrt(n): the integer r with r*r <= n < (r+1)*(r+1)
Isqrt(n) == IF n < 2 THEN n ELSE IsqrtIter(n, n \div 2 + 1)

\* (x * y) % n on Python's unbounded integers, for 0 <= x, y < n.  The
\* product is formed directly while it fits TLC's integers.
MulMod(x, y, n) == (x * y) % n

RECURSIVE ModPow(_, _, _)
\* pow(x, e, n), e >= 0
ModPow(x, e, n) ==
    IF e = 0 THEN 1 % n
    ELSE LET h == ModPow(x, e \div 2, n)
             sq == MulMod(h, h, n)
         IN  IF e % 2 = 1 THEN MulMod(sq, x % n, n) ELSE sq

Max2(x, y) == IF x >= y THEN x ELSE y
Min2(x, y) == IF x <= y THEN x ELSE y

(***************************************************************************)
(* precision_checker.py                                                    *)
(***************************************************************************)
\* validate_calculation_inputs(x): raises PrecisionError exactly for a float
ValidateInputsRaises(kind) == kind = "float"

\* check_precision(result): raises PrecisionError for a float or a complex
CheckPrecisionRaises(kind) == kind \in {"float", "complex"}

\* the ordering comparisons (<, <=) of a complex with an int raise TypeError
OrderCompareRaises(kind) == kind = "complex"

(***************************************************************************)
(* factorial.py                                                            *)
(***************************************************************************)
RECURSIVE ProductRangeSkippingMid(_, _)
\* a split that leaves the midpoint out of both halves
ProductRangeSkippingMid(lo, hi) ==
    IF lo > hi THEN 1
    ELSE IF lo = hi THEN lo
    ELSE IF hi - lo = 1 THEN lo * hi
    ELSE LET mid == (lo + hi) \div 2
         IN  ProductRangeSkippingMid(lo, mid - 1)
             * ProductRangeSkippingMid(mid + 1, hi)

RECURSIVE _product_range(_, _)
_product_range(lo, hi) ==
    IF lo > hi THEN 1
    ELSE IF lo = hi THEN lo
    ELSE IF hi - lo = 1 THEN lo * hi
    ELSE LET mid == (lo + hi) \div 2
         IN  _product_range(lo, mid) * _product_range(mid + 1, hi)

\* _binary_splitting_factorial(n) for n >= 0 (n < 0 raises ValueError)
_binary_splitting_factorial(n) ==
    IF n \in {0, 1} THEN 1 ELSE _product_range(1, n)

RECURSIVE SimpleLoop(_, _, _)
\* for i in range(k, n + 1): result *= i
SimpleLoop(k, n, acc) ==
    IF k > n THEN acc ELSE SimpleLoop(k + 1, n, acc * k)

\* _custom_factorial_simple(n) for n >= 0 (n < 0 raises ValueError)
_custom_factorial_simple(n) ==
    IF n \in {0, 1} THEN 1 ELSE SimpleLoop(2, n, 1)

(***************************************************************************)
(* fibonacci.py                                                            *)
(***************************************************************************)
\* a doubling step with F(2k) = F(k) * (2*F(k+1) + F(k))
FastDoublingWrongSign(fa, fb, bit) ==
    LET c == fa * (2 * fb + fa)
        d == fa * fa + fb * fb
    IN  IF bit = 1 THEN <<d, c + d>> ELSE <<c, d>>

\* a doubling step that takes the branches of the two bit values for each
\* other
FastDoublingSwappedBits(fa, fb, bit) ==
    LET c == fa * (2 * fb - fa)
        d == fa * fa + fb * fb
    IN  IF bit = 1 THEN <<c, d>> ELSE <<d, c + d>>

\* one iteration of the loop of _fast_doubling on the pair (a, b)
FastDoublingStep(fa, fb, bit) ==
    LET c == fa * (2 * fb - fa)
        d == fa * fa + fb * fb
    IN  IF bit = 1 THEN <<d, c + d>> ELSE <<c, d>>

RECURSIVE FastDoublingFrom(_, _, _, _)
\* the remaining iterations i, i-1, ..., 0 of the loop; returns a
FastDoublingFrom(n, fa, fb, s) ==
    IF s < 0 THEN fa
    ELSE LET p == FastDoublingStep(fa, fb, BitAt(n, s))
         IN  FastDoublingFrom(n, p[1], p[2], s - 1)

\* _fast_doubling(n), n >= 2
_fast_doubling(n) == FastDoublingFrom(n, 1, 1, (BitLength(n) - 1) - 1)

\* FibonacciCalculator.calculate_by_index(n) for an int n >= 0, as called
\* from the scan of calculate_by_digits
FibValue(n) == IF n = 0 THEN 0 ELSE IF n = 1 THEN 1 ELSE _fast_doubling(n)

(***************************************************************************)
(* Numbers beyond TLC's integers: three limbs of base 10^9, least          *)
(* significant first.  The thresholds of primes.py that do not fit an      *)
(* integer of TLC are written, and compared, in this form.                 *)
(***************************************************************************)
LimbBase == 10 ^ 9

IntToBig(v) == <<v % LimbBase, v \div LimbBase, 0>>

\* u < v
BigLess(u, v) ==
    \/ u[3] < v[3]
    \/ u[3] = v[3] /\ u[2] < v[2]
    \/ u[3] = v[3] /\ u[2] = v[2] /\ u[1] < v[1]

\* u + v
BigAdd(u, v) ==
    LET s1 == u[1] + v[1]
        s2 == u[2] + v[2] + (s1 \div LimbBase)
    IN  <<s1 % LimbBase, s2 % LimbBase, u[3] + v[3] + (s2 \div LimbBase)>>

\* u - v for u >= v
BigSub(u, v) ==
    LET d1 == u[1] - v[1]
        b1 == IF d1 < 0 THEN 1 ELSE 0
        d2 == (u[2] - v[2]) - b1
        b2 == IF d2 < 0 THEN 1 ELSE 0
    IN  <<d1 + b1 * LimbBase, d2 + b2 * LimbBase, (u[3] - v[3]) - b2>>

\* u // 2
BigHalf(u) ==
    LET t2 == (u[3] % 2) * LimbBase + u[2]
        t1 == (t2 % 2) * LimbBase + u[1]
    IN  <<t1 \div 2, t2 \div 2, u[3] \div 2>>

\* (u + v) % n for u, v < n
BigAddMod(u, v, n) ==
    LET s == BigAdd(u, v) IN IF BigLess(s, n) THEN s ELSE BigSub(s, n)

RECURSIVE MulModBits(_, _, _)
\* `count` steps of the binary multiplication on st = <<sum, addend, y>>:
\* the sum takes the addend when y is odd, the addend doubles, y halves
MulModBits(st, n, count) ==
    IF count = 0 \/ st[3] = IntToBig(0) THEN st
    ELSE LET nx == <<IF st[3][1] % 2 = 1 THEN BigAddMod(st[1], st[2], n)
                     ELSE st[1],
                     BigAddMod(st[2], st[2], n),
                     BigHalf(st[3])>>
         IN  MulModBits(nx, n, count - 1)

RECURSIVE MulModChunks(_, _)
MulModChunks(st, n) ==
    IF st[3] = IntToBig(0) THEN st[1]
    ELSE MulModChunks(MulModBits(st, n, 10), n)

\* (x * y) % n for x < n
BigMulMod(x, y, n) == MulModChunks(<<IntToBig(0), x, y>>, n)

RECURSIVE BigDecomposeLoop(_, _)
\* while d % 2 == 0: d //= 2; r += 1
BigDecomposeLoop(d, r) ==
    IF d[1] % 2 = 0 THEN BigDecomposeLoop(BigHalf(d), r + 1) ELSE <<d, r>>

(***************************************************************************)
(* primes.py: constants                                                    *)
(***************************************************************************)
\* DETERMINISTIC_LIMIT = 3 * 10 ** 24
DETERMINISTIC_LIMIT == <<0, 0, 3000000>>
MILLER_RABIN_DEFAULT_ROUNDS == 40
BAILLIE_PSW_FALLBACK_ROUNDS == 10
SEGMENTED_SIEVE_THRESHOLD == 100000
JACOBI_SEARCH_LIMIT == 20

(***************************************************************************)
(* primes.py: sieves                                                       *)
(***************************************************************************)
\* int(n*ln(n) + n*ln(ln(n)) + n*1.5) + 100 for n = 7..70, evaluated in
\* double precision as the source does
UpperBoundTable ==
    <<128, 134, 140, 146, 152, 158, 165, 171, 178, 184, 191, 198, 204, 211,
      218, 225, 232, 240, 247, 254, 261, 269, 276, 283, 291, 298, 306, 313,
      321, 328, 336, 344, 352, 359, 367, 375, 383, 391, 398, 406, 414, 422,
      430, 438, 446, 454, 463, 471, 479, 487, 495, 503, 511, 520, 528, 536,
      545, 553, 561, 570, 578, 586, 595, 603>>

\* the same expression at two indexes whose bound reaches the segmented
\* sieve: n = 7887 is the first such index; at n = 7923 the bound has
\* passed 317 * 317
LargeUpperBounds == (7887 :> 100006) @@ (7923 :> 100502)

_estimate_upper_bound(n) ==
    IF n <= 6 THEN 20
    ELSE IF n \in DOMAIN LargeUpperBounds THEN LargeUpperBounds[n]
    ELSE UpperBoundTable[n - 6]

\* for j in range(k * k, limit + 1, k): sieve[j] = False
SieveMark(sieve, k, limit) ==
    [j \in 0..limit |-> sieve[j] /\ ~(j >= k * k /\ (j - k * k) % k = 0)]

RECURSIVE SieveLoop(_, _, _, _)
\* for i in range(k, sqrt_limit): if sieve[i]: mark the multiples of i
SieveLoop(sieve, k, sqrt_limit, limit) ==
    IF k >= sqrt_limit THEN sieve
    ELSE SieveLoop(IF sieve[k] THEN SieveMark(sieve, k, limit) ELSE sieve,
                   k + 1, sqrt_limit, limit)

\* the list 1-indexed: [lo, lo + 1, ..., hi]
RangeSeq(lo, hi) == [k \in 1..(hi - lo + 1) |-> lo + k - 1]

_simple_sieve(limit) ==
    IF limit < 2 THEN <<>>
    ELSE LET sieve0 == [j \in 0..limit |-> j >= 2]
             sqrt_limit == Isqrt(limit) + 1
             sieve == SieveLoop(sieve0, 2, sqrt_limit, limit)
         IN  SelectSeq(RangeSeq(2, limit), LAMBDA j : sieve[j])

\* start of the marking of one base prime in the segment [low, high]
SegmentStart(prime, low) ==
    Max2(prime * prime, ((low + prime - 1) \div prime) * prime)

\* segment[j - low] after the loop over base_primes
SegmentUnmarked(j, low, high, base_primes) ==
    \A t \in 1..Len(base_primes) :
        LET prime == base_primes[t]
            start == SegmentStart(prime, low)
        IN  ~(start <= high /\ j >= start /\ (j - start) % prime = 0)

\* the primes one segment appends, in order
SegmentPrimes(low, limit, segment_size, base_primes) ==
    LET high == Min2(low + segment_size - 1, limit)
    IN  SelectSeq(RangeSeq(low, high),
                  LAMBDA j : j > 1 /\ SegmentUnmarked(j, low, high, base_primes))

RECURSIVE SegmentsAppend(_, _, _, _, _)
\* what the segments number s1..s2 append (segment s starts at
\* sqrt_limit + s * segment_size); the concatenation is split in halves
\* to keep the evaluation shallow
SegmentsAppend(s1, s2, sqrt_limit, limit, base_primes) ==
    IF s1 > s2 THEN <<>>
    ELSE IF s1 = s2
    THEN SegmentPrimes(sqrt_limit + s1 * sqrt_limit, limit, sqrt_limit,
                       base_primes)
    ELSE LET mid == (s1 + s2) \div 2
         IN  SegmentsAppend(s1, mid, sqrt_limit, limit, base_primes)
             \o SegmentsAppend(mid + 1, s2, sqrt_limit, limit, base_primes)

_compute_segmented_sieve(limit) ==
    LET sqrt_limit == Isqrt(limit) + 1
        base_primes == _simple_sieve(sqrt_limit)
        \* range(sqrt_limit, limit + 1, segment_size) has this many values
        nseg == IF limit < sqrt_limit THEN 0
                ELSE (limit - sqrt_limit) \div sqrt_limit + 1
    IN  base_primes \o SegmentsAppend(0, nseg - 1, sqrt_limit, limit, base_primes)

_segmented_sieve(limit) ==
    IF limit < 2 THEN <<>>
    ELSE IF limit < SEGMENTED_SIEVE_THRESHOLD THEN _simple_sieve(limit)
    ELSE _compute_segmented_sieve(limit)

(***************************************************************************)
(* primes.py: Miller-Rabin                                                 *)
(***************************************************************************)
RECURSIVE DecomposeLoop(_, _)
\* while d % 2 == 0: d //= 2; r += 1
DecomposeLoop(d, r) ==
    IF d % 2 = 0 THEN DecomposeLoop(d \div 2, r + 1) ELSE <<d, r>>

_decompose_n_minus_one(n) == DecomposeLoop(n - 1, 0)

_decompose_n_plus_one(n) == DecomposeLoop(n + 1, 0)

RECURSIVE WitnessSquarings(_, _, _)
\* for _ in range(count): x = pow(x, 2, n); if x == n - 1: return True
WitnessSquarings(x, count, n) ==
    IF count <= 0 THEN FALSE
    ELSE LET y == MulMod(x, x, n)
         IN  IF y = n - 1 THEN TRUE ELSE WitnessSquarings(y, count - 1, n)

\* a witness test that stops after the first power
WitnessWithoutSquarings(n, base) ==
    LET dr == _decompose_n_minus_one(n)
        x == ModPow(base, dr[1], n)
    IN  x = 1 \/ x = n - 1

_miller_rabin_witness(n, base) ==
    LET dr == _decompose_n_minus_one(n)
        x == ModPow(base, dr[1], n)
    IN  IF x = 1 \/ x = n - 1 THEN TRUE
        ELSE WitnessSquarings(x, dr[2] - 1, n)

\* the table of _get_deterministic_bases; n is given as limbs
_get_deterministic_bases(n) ==
    IF BigLess(n, <<2047, 0, 0>>) THEN <<2>>
    ELSE IF BigLess(n, <<1373653, 0, 0>>) THEN <<2, 3>>
    ELSE IF BigLess(n, <<9080191, 0, 0>>) THEN <<31, 73>>
    ELSE IF BigLess(n, <<25326001, 0, 0>>) THEN <<2, 3, 5>>
    ELSE IF BigLess(n, <<215031751, 3, 0>>) THEN <<2, 3, 5, 7>>
    ELSE IF BigLess(n, <<759123141, 4, 0>>) THEN <<2, 7, 61>>
    ELSE IF BigLess(n, <<4669633, 1122, 0>>) THEN <<2, 13, 23, 1662803>>
    ELSE IF BigLess(n, <<302898747, 2152, 0>>) THEN <<2, 3, 5, 7, 11>>
    ELSE IF BigLess(n, <<749660383, 3474, 0>>) THEN <<2, 3, 5, 7, 11, 13>>
    ELSE IF BigLess(n, <<71728321, 341550, 0>>)
    THEN <<2, 3, 5, 7, 11, 13, 17>>
    ELSE <<2, 3, 5, 7, 11, 13, 17, 19, 23, 29, 31, 37>>

_miller_rabin_deterministic(n) ==
    LET bases == _get_deterministic_bases(IntToBig(n))
    IN  \A t \in 1..Len(bases) :
            bases[t] >= n \/ _miller_rabin_witness(n, bases[t])

\* _miller_rabin_probabilistic(n, k) with the bases random.randint drew
_miller_rabin_probabilistic(n, k, draws) ==
    \A t \in 1..k : _miller_rabin_witness(n, draws[t])

\* miller_rabin(n, k) for an int n; draws are the random bases of the
\* probabilistic mode
miller_rabin(n, k, draws) ==
    IF n < 2 THEN FALSE
    ELSE IF n = 2 THEN TRUE
    ELSE IF n % 2 = 0 THEN FALSE
    ELSE IF BigLess(IntToBig(n), DETERMINISTIC_LIMIT)
    THEN _miller_rabin_deterministic(n)
    ELSE _miller_rabin_probabilistic(n, k, draws)

(***************************************************************************)
(* primes.py: Baillie-PSW                                                  *)
(***************************************************************************)
RECURSIVE _jacobi_remove_twos(_, _, _)
_jacobi_remove_twos(x, n, res) ==
    IF x % 2 = 0
    THEN _jacobi_remove_twos(x \div 2, n,
                             IF n % 8 \in {3, 5} THEN -res ELSE res)
    ELSE <<x, res>>

RECURSIVE JacobiLoop(_, _, _)
\* while a != 0: ... ; return result if n == 1 else 0
JacobiLoop(x, n, res) ==
    IF x = 0 THEN (IF n = 1 THEN res ELSE 0)
    ELSE LET t == _jacobi_remove_twos(x, n, res)
             x1 == n
             n1 == t[1]
             r1 == IF x1 % 4 = 3 /\ n1 % 4 = 3 THEN -t[2] ELSE t[2]
         IN  JacobiLoop(x1 % n1, n1, r1)

_jacobi_symbol(x, n) ==
    IF n <= 0 \/ n % 2 = 0 THEN 0
    ELSE IF x % n = 0 THEN 0
    ELSE JacobiLoop(x % n, n, 1)

RECURSIVE FindLucasLoop(_, _, _, _)
\* the loop of _find_lucas_d with `count` iterations left; the Optional
\* result is <<>> for None and <<D>> for a value
FindLucasLoop(n, d, sign, count) ==
    IF count = 0 THEN <<>>
    ELSE LET test_d == sign * d
         IN  IF _jacobi_symbol(test_d, n) = -1 THEN <<test_d>>
             ELSE FindLucasLoop(n, IF -sign = 1 THEN d + 2 ELSE d, -sign,
                                count - 1)

_find_lucas_d(n) == FindLucasLoop(n, 5, 1, JACOBI_SEARCH_LIMIT)

\* (P, Q), or (P) alone when Q is None: (1 - D) is not a multiple of 4
_compute_lucas_params(d) ==
    IF (1 - d) % 4 # 0 THEN <<1>> ELSE <<1, (1 - d) \div 4>>

\* a doubling that uses Q where Q^k is due
LucasDoubleUntrackedQ(u, v, _p, _q, q_power, n) ==
    <<(u * v) % n, (v * v - 2 * _q) % n, (q_power * q_power) % n>>

\* (U_2k, V_2k, Q^2k) mod n
_lucas_double_with_q(u, v, _p, _q, q_power, n) ==
    <<(u * v) % n, (v * v - 2 * q_power) % n, (q_power * q_power) % n>>

\* (U_k+1, V_k+1) mod n; the factors are reduced modulo n before they are
\* multiplied, which leaves the residue unchanged
_lucas_next(u, v, p, q, n) ==
    IF n % 2 = 1
    THEN LET inv_2 == (n + 1) \div 2
             delta == (p * p - 4 * q) % n
         IN  <<MulMod((p * u + v) % n, inv_2, n),
               MulMod((p * v + u * delta) % n, inv_2, n)>>
    ELSE LET delta == (p * p - 4 * q) % n
         IN  <<((p * u + v) \div 2) % n, ((p * v + u * delta) \div 2) % n>>

RECURSIVE LucasBits(_, _, _, _, _, _, _, _)
\* the loop over bin(k)[3:]: the bits of k below the leading one, from
\* bit s down to bit 0
LucasBits(u, v, q_power, p, q, k, s, n) ==
    IF s < 0 THEN <<u, v>>
    ELSE LET dbl == _lucas_double_with_q(u, v, p, q, q_power, n)
         IN  IF BitAt(k, s) = 1
             THEN LET nx == _lucas_next(dbl[1], dbl[2], p, q, n)
                  IN  LucasBits(nx[1], nx[2], (dbl[3] * q) % n, p, q, k,
                                s - 1, n)
             ELSE LucasBits(dbl[1], dbl[2], dbl[3], p, q, k, s - 1, n)

_lucas_sequence_iterative(p, q, k, n) ==
    IF k = 0 THEN <<0, 2 % n>>
    ELSE IF k = 1 THEN <<1 % n, p % n>>
    ELSE LucasBits(1 % n, p % n, q % n, p, q, k, BitLength(k) - 2, n)

RECURSIVE LucasDoublings(_, _, _, _, _, _, _)
\* for _ in range(count): double; if v == 0: return True
LucasDoublings(u, v, p, q, q_power, count, n) ==
    IF count <= 0 THEN FALSE
    ELSE LET dbl == _lucas_double_with_q(u, v, p, q, q_power, n)
         IN  IF dbl[2] = 0 THEN TRUE
             ELSE LucasDoublings(dbl[1], dbl[2], p, q, dbl[3], count - 1, n)

_strong_lucas_test(n, p, q) ==
    LET ds == _decompose_n_plus_one(n)
        uv == _lucas_sequence_iterative(p, q, ds[1], n)
    IN  IF uv[1] = 0 \/ uv[2] = 0 THEN TRUE
        ELSE LucasDoublings(uv[1], uv[2], p, q, ModPow(q, ds[1], n),
                            ds[2] - 1, n)

\* baillie_psw(n) for an int n
baillie_psw(n, draws) ==
    IF n < 2 THEN FALSE
    ELSE IF n = 2 THEN TRUE
    ELSE IF n % 2 = 0 THEN FALSE
    ELSE IF ~_miller_rabin_witness(n, 2) THEN FALSE
    ELSE LET d == _find_lucas_d(n)
         IN  IF d = <<>>
             THEN miller_rabin(n, BAILLIE_PSW_FALLBACK_ROUNDS, draws)
             ELSE LET pq == _compute_lucas_params(d[1])
                  IN  IF Len(pq) < 2
                      THEN miller_rabin(n, BAILLIE_PSW_FALLBACK_ROUNDS, draws)
                      ELSE _strong_lucas_test(n, pq[1], pq[2])

\* _get_starting_candidate(d)
_get_starting_candidate(d) ==
    LET start == 10 ^ (d - 1)
    IN  IF start = 1 THEN 2
        ELSE IF start % 2 = 0 THEN start + 1 ELSE start

(***************************************************************************)
(* estimator.py.  A float is modelled by the exact rational it stands      *)
(* for, <<numerator, denominator>> in lowest terms with a positive         *)
(* denominator; times are counted in milliseconds, so that the 0.001       *)
(* of predict_time is 1; math.log is tabulated to one decimal.             *)
(***************************************************************************)
RECURSIVE Gcd(_, _)
Gcd(m, n) == IF n = 0 THEN m ELSE Gcd(n, m % n)

Abs(x) == IF x < 0 THEN -x ELSE x

Rat(num, den) ==
    LET g == Gcd(Abs(num), Abs(den))
        s == IF den < 0 THEN -1 ELSE 1
    IN  <<s * (num \div g), s * (den \div g)>>

RatOfInt(k) == <<k, 1>>

RatAdd(x, y) ==
    LET l == (x[2] \div Gcd(x[2], y[2])) * y[2]
    IN  Rat(x[1] * (l \div x[2]) + y[1] * (l \div y[2]), l)

RatSub(x, y) == RatAdd(x, <<-y[1], y[2]>>)

RatMul(x, y) ==
    LET g1 == Gcd(Abs(x[1]), y[2])
        g2 == Gcd(Abs(y[1]), x[2])
    IN  Rat((x[1] \div g1) * (y[1] \div g2), (x[2] \div g2) * (y[2] \div g1))

\* x / y for y # 0
RatDiv(x, y) == RatMul(x, Rat(y[2], y[1]))

RatLess(x, y) == RatSub(x, y)[1] < 0

\* max(x, y)
RatMax(x, y) == IF RatLess(x, y) THEN y ELSE x

RECURSIVE RatSum(_)
\* sum(values)
RatSum(values) ==
    IF values = <<>> THEN RatOfInt(0)
    ELSE RatAdd(RatSum(SubSeq(values, 1, Len(values) - 1)),
                values[Len(values)])

\* math.log(n) in tenths, for the arguments the model uses
LogTenths ==
    (1 :> 0) @@ (2 :> 7) @@ (3 :> 11) @@ (4 :> 14) @@ (5 :> 16) @@ (6 :> 18)
    @@ (100 :> 46) @@ (500 :> 62) @@ (1000 :> 69) @@ (1001 :> 69)
    @@ (2000 :> 76) @@ (5000 :> 85) @@ (50000 :> 108)

\* math.log(max(1, n))
MathLog(n) == Rat(LogTenths[Max2(1, n)], 10)

\* the outcome of one probe of run_micro_benchmark: <<>> when the
\* calculation raised, <<t>> when it took t milliseconds
\* run_micro_benchmark(calculation_func, input_values)
run_micro_benchmark(input_values, outcomes) ==
    LET kept == SelectSeq([k \in 1..Len(input_values) |-> k],
                          LAMBDA k : outcomes[k] # <<>>)
    IN  [j \in 1..Len(kept) |-> <<input_values[kept[j]], outcomes[kept[j]][1]>>]

\* the list with p placed after every element whose input is <= p's
InsertByInput(sorted, p) ==
    LET k == Cardinality({j \in 1..Len(sorted) : sorted[j][1] <= p[1]})
    IN  SubSeq(sorted, 1, k) \o <<p>> \o SubSeq(sorted, k + 1, Len(sorted))

RECURSIVE SortedByInput(_)
\* sorted(benchmark_points, key=lambda x: x[0]), a stable sort
SortedByInput(points) ==
    IF points = <<>> THEN <<>>
    ELSE InsertByInput(SortedByInput(SubSeq(points, 1, Len(points) - 1)),
                       points[Len(points)])

_linear_regression_predict(x_values, y_values, x_predict) ==
    LET n == Len(x_values)
    IN  IF n < 2
        THEN IF n = 1 /\ x_values[1] # RatOfInt(0)
             THEN RatMul(y_values[1], RatDiv(x_predict, x_values[1]))
             ELSE RatOfInt(0)
        ELSE LET x_mean == RatDiv(RatSum(x_values), RatOfInt(n))
                 y_mean == RatDiv(RatSum(y_values), RatOfInt(n))
                 numerator ==
                     RatSum([k \in 1..n |->
                                RatMul(RatSub(x_values[k], x_mean),
                                       RatSub(y_values[k], y_mean))])
                 denominator ==
                     RatSum([k \in 1..n |->
                                RatMul(RatSub(x_values[k], x_mean),
                                       RatSub(x_values[k], x_mean))])
             IN  IF denominator = RatOfInt(0) THEN y_mean
                 ELSE LET slope == RatDiv(numerator, denominator)
                          intercept == RatSub(y_mean, RatMul(slope, x_mean))
                      IN  RatAdd(RatMul(slope, x_predict), intercept)

\* the regressor of one input under the complexity model of the type
Transformed(type, n) ==
    IF type = "fibonacci" THEN MathLog(n)
    ELSE IF type = "factorial"
    THEN RatMul(RatOfInt(n), RatMul(MathLog(n), MathLog(n)))
    ELSE IF type = "primes" THEN RatMul(RatOfInt(n), MathLog(n))
    ELSE RatOfInt(n)

_predict_by_type(type, inputs, times, input_value) ==
    _linear_regression_predict(
        [k \in 1..Len(inputs) |-> Transformed(type, inputs[k])],
        times, Transformed(type, input_value))

\* a result that sees an empty sample list as a prediction of zero
SimpleExtrapolationZeroDefault(benchmark_points, input_value) ==
    IF Len(benchmark_points) = 1
    THEN LET n == benchmark_points[1][1]
             t == RatOfInt(benchmark_points[1][2])
         IN  IF n = 0 THEN <<t>> ELSE <<RatMul(t, Rat(input_value, n))>>
    ELSE <<RatOfInt(0)>>

\* _simple_extrapolation: <<value>>, or <<>> when it raises ValueError
_simple_extrapolation(benchmark_points, input_value) ==
    IF Len(benchmark_points) = 1
    THEN LET n == benchmark_points[1][1]
             t == RatOfInt(benchmark_points[1][2])
         IN  IF n = 0 THEN <<t>> ELSE <<RatMul(t, Rat(input_value, n))>>
    ELSE <<>>

\* a prediction that sends every sample list, however short, through the
\* regression of the type
PredictTimeAlwaysRegression(data, input_value, type) ==
    IF type \notin DOMAIN data THEN <<>>
    ELSE LET sorted_points == SortedByInput(data[type])
             inputs == [k \in 1..Len(sorted_points) |-> sorted_points[k][1]]
             times == [k \in 1..Len(sorted_points) |->
                          RatOfInt(sorted_points[k][2])]
         IN  IF sorted_points = <<>> THEN <<>>
             ELSE <<RatMax(RatOfInt(0),
                           _predict_by_type(type, inputs, times, input_value))>>

\* a prediction without the one-millisecond floor for large inputs
PredictTimeWithoutFloor(data, input_value, type) ==
    IF type \notin DOMAIN data THEN <<>>
    ELSE LET benchmark_points == data[type]
         IN  IF Len(benchmark_points) < 2
             THEN _simple_extrapolation(benchmark_points, input_value)
             ELSE LET sorted_points == SortedByInput(benchmark_points)
                      inputs == [k \in 1..Len(sorted_points) |->
                                    sorted_points[k][1]]
                      times == [k \in 1..Len(sorted_points) |->
                                   RatOfInt(sorted_points[k][2])]
                  IN  <<RatMax(RatOfInt(0),
                               _predict_by_type(type, inputs, times,
                                                input_value))>>

\* predict_time on the estimator's data: <<value>>, or <<>> when it raises
\* ValueError
predict_time(data, input_value, type) ==
    IF type \notin DOMAIN data THEN <<>>
    ELSE LET benchmark_points == data[type]
         IN  IF Len(benchmark_points) < 2
             THEN _simple_extrapolation(benchmark_points, input_value)
             ELSE LET sorted_points == SortedByInput(benchmark_points)
                      inputs == [k \in 1..Len(sorted_points) |->
                                    sorted_points[k][1]]
                      times == [k \in 1..Len(sorted_points) |->
                                   RatOfInt(sorted_points[k][2])]
                      predicted ==
                          _predict_by_type(type, inputs, times, input_value)
                      raised ==
                          IF RatLess(predicted, RatOfInt(1))
                             /\ input_value > 1000
                          THEN RatMax(RatOfInt(1), predicted)
                          ELSE predicted
                  IN  <<RatMax(RatOfInt(0), raised)>>

(***************************************************************************)
(* The calls.  Raise and Return end a call.                                *)
(***************************************************************************)
loopVars == <<idx, a, b, i>>
callVars == <<op, argKind, arg, calc_type>>

Raise(e) ==
    /\ pc' = "done"
    /\ err' = e
    /\ result' = NoValue
    /\ checked' = FALSE

Return(v, chk) ==
    /\ pc' = "done"
    /\ err' = "none"
    /\ result' = v
    /\ checked' = chk

Continue(next) ==
    /\ pc' = next
    /\ UNCHANGED <<err, result, checked>>

\* the prologue shared by the six entry points of the calculators:
\* validate_calculation_inputs(x), then the range test `x < least`
PrologueError(least) ==
    IF ValidateInputsRaises(argKind) THEN "PrecisionError"
    ELSE IF OrderCompareRaises(argKind) THEN "TypeError"
    ELSE IF arg < least THEN "InputError"
    ELSE "none"

(***************************************************************************)
(* FibonacciCalculator                                                     *)
(***************************************************************************)
\* calculate_by_index up to the call of _fast_doubling
FibIndexEnter ==
    /\ pc = "call" /\ op = "fibonacci_by_index"
    /\ IF PrologueError(0) # "none"
       THEN Raise(PrologueError(0)) /\ UNCHANGED <<loopVars, work>>
       ELSE IF arg \in {0, 1}
       THEN Return(arg, FALSE) /\ UNCHANGED <<loopVars, work>>
       ELSE /\ Continue("loop")
            /\ a' = 1 /\ b' = 1
            /\ i' = (BitLength(arg) - 1) - 1
            /\ UNCHANGED <<idx, work>>
    /\ UNCHANGED <<callVars, benchmark_data, mr, sessionVars>>

\* one iteration of the loop of _fast_doubling
FibStep ==
    /\ pc = "loop" /\ op = "fibonacci_by_index"
    /\ i >= 0
    /\ LET p == FastDoublingStep(a, b, BitAt(arg, i))
       IN  a' = p[1] /\ b' = p[2]
    /\ i' = i - 1
    /\ work' = work + 1
    /\ Continue("loop")
    /\ UNCHANGED <<callVars, idx, benchmark_data, mr, sessionVars>>

\* check_precision(a); return a
FibReturn ==
    /\ pc = "loop" /\ op = "fibonacci_by_index"
    /\ i < 0
    /\ Return(a, TRUE)
    /\ UNCHANGED <<callVars, loopVars, work, benchmark_data, mr, sessionVars>>

\* calculate_by_digits up to the scan
FibDigitsEnter ==
    /\ pc = "call" /\ op = "fibonacci_by_digits"
    /\ IF PrologueError(1) # "none"
       THEN Raise(PrologueError(1)) /\ UNCHANGED idx
       ELSE Continue("scan") /\ idx' = 0
    /\ UNCHANGED <<callVars, a, b, i, work, benchmark_data, mr, sessionVars>>

\* a scan that stops only when the value has more than d digits
FibDigitsScanStrict ==
    /\ pc = "scan" /\ op = "fibonacci_by_digits"
    /\ LET fib_value == FibValue(idx)
       IN  IF StrLen(fib_value) > arg
           THEN Return(fib_value, TRUE) /\ UNCHANGED idx
           ELSE Continue("scan") /\ idx' = idx + 1
    /\ work' = work + 1
    /\ UNCHANGED <<callVars, a, b, i, benchmark_data, mr, sessionVars>>

\* one iteration of `while True` in calculate_by_digits
FibDigitsScan ==
    /\ pc = "scan" /\ op = "fibonacci_by_digits"
    /\ LET fib_value == FibValue(idx)
       IN  IF StrLen(fib_value) >= arg
           THEN Return(fib_value, TRUE) /\ UNCHANGED idx
           ELSE Continue("scan") /\ idx' = idx + 1
    /\ work' = work + 1
    /\ UNCHANGED <<callVars, a, b, i, benchmark_data, mr, sessionVars>>

(***************************************************************************)
(* FactorialCalculator and the benchmark variants                          *)
(***************************************************************************)
FactIndexCall ==
    /\ pc = "call" /\ op = "factorial_by_index"
    /\ IF PrologueError(0) # "none"
       THEN Raise(PrologueError(0)) /\ UNCHANGED work
       ELSE Return(MathFactorial(arg), TRUE) /\ work' = work + 1
    /\ UNCHANGED <<callVars, loopVars, benchmark_data, mr, sessionVars>>

\* an entry that validates the type only and then starts the scan
FactDigitsEnterUnchecked ==
    /\ pc = "call" /\ op = "factorial_by_digits"
    /\ IF ValidateInputsRaises(argKind)
       THEN Raise("PrecisionError") /\ UNCHANGED idx
       ELSE Continue("scan") /\ idx' = 0
    /\ UNCHANGED <<callVars, a, b, i, work, benchmark_data, mr, sessionVars>>

FactDigitsEnter ==
    /\ pc = "call" /\ op = "factorial_by_digits"
    /\ IF PrologueError(1) # "none"
       THEN Raise(PrologueError(1)) /\ UNCHANGED idx
       ELSE Continue("scan") /\ idx' = 0
    /\ UNCHANGED <<callVars, a, b, i, work, benchmark_data, mr, sessionVars>>

FactDigitsScan ==
    /\ pc = "scan" /\ op = "factorial_by_digits"
    /\ LET fact_value == MathFactorial(idx)
       IN  IF StrLen(fact_value) >= arg
           THEN Return(fact_value, TRUE) /\ UNCHANGED idx
           ELSE Continue("scan") /\ idx' = idx + 1
    /\ work' = work + 1
    /\ UNCHANGED <<callVars, a, b, i, benchmark_data, mr, sessionVars>>

\* _binary_splitting_factorial(n) as a call
BinarySplittingCall ==
    /\ pc = "call" /\ op = "_binary_splitting_factorial"
    /\ IF arg < 0
       THEN Raise("ValueError") /\ UNCHANGED work
       ELSE Return(_binary_splitting_factorial(arg), FALSE) /\ work' = work + 1
    /\ UNCHANGED <<callVars, loopVars, benchmark_data, mr, sessionVars>>

\* _custom_factorial_simple(n) as a call
SimpleFactorialCall ==
    /\ pc = "call" /\ op = "_custom_factorial_simple"
    /\ IF arg < 0
       THEN Raise("ValueError") /\ UNCHANGED work
       ELSE Return(_custom_factorial_simple(arg), FALSE) /\ work' = work + 1
    /\ UNCHANGED <<callVars, loopVars, benchmark_data, mr, sessionVars>>

(***************************************************************************)
(* PrimeCalculator                                                         *)
(***************************************************************************)
\* calculate_by_index up to the sieve; idx holds upper_bound
PrimeIndexEnter ==
    /\ pc = "call" /\ op = "prime_by_index"
    /\ IF PrologueError(1) # "none"
       THEN Raise(PrologueError(1)) /\ UNCHANGED idx
       ELSE IF arg = 1
       THEN Return(2, TRUE) /\ UNCHANGED idx
       ELSE Continue("sieve") /\ idx' = _estimate_upper_bound(arg)
    /\ UNCHANGED <<callVars, a, b, i, work, benchmark_data, mr, sessionVars>>

\* primes = _segmented_sieve(upper_bound), then one test of
\* `while len(primes) < n`: grow the bound and sieve again, or return
\* primes[n - 1]
PrimeIndexSieve ==
    /\ pc = "sieve" /\ op = "prime_by_index"
    /\ LET primes == _segmented_sieve(idx)
       IN  IF Len(primes) < arg
           THEN Continue("sieve") /\ idx' = (idx * 3) \div 2 + 100
           ELSE Return(primes[arg], TRUE) /\ UNCHANGED idx
    /\ work' = work + 1
    /\ UNCHANGED <<callVars, a, b, i, benchmark_data, mr, sessionVars>>

\* calculate_by_digits up to the scan: after validate_calculation_inputs,
\* `not isinstance(d, int) or d <= 0` raises InputError
PrimeDigitsEnter ==
    /\ pc = "call" /\ op = "prime_by_digits"
    /\ IF ValidateInputsRaises(argKind)
       THEN Raise("PrecisionError") /\ UNCHANGED idx
       ELSE IF argKind # "int" \/ arg <= 0
       THEN Raise("InputError") /\ UNCHANGED idx
       ELSE IF arg = 1
       THEN Return(2, TRUE) /\ UNCHANGED idx
       ELSE Continue("scan") /\ idx' = _get_starting_candidate(arg)
    /\ UNCHANGED <<callVars, a, b, i, work, benchmark_data, mr, sessionVars>>

\* an iteration that leaves a candidate that fails the test in place
PrimeDigitsScanWithoutAdvance ==
    /\ pc = "scan" /\ op = "prime_by_digits"
    /\ IF StrLen(idx) < arg
       THEN Continue("scan") /\ idx' = idx + 2 /\ work' = work + 1
       ELSE IF miller_rabin(idx, MILLER_RABIN_DEFAULT_ROUNDS, <<>>)
       THEN Return(idx, TRUE) /\ UNCHANGED idx /\ work' = work + 1
       ELSE Continue("scan") /\ UNCHANGED <<idx, work>>
    /\ UNCHANGED <<callVars, a, b, i, benchmark_data, mr, sessionVars>>

\* one iteration of `while True` in calculate_by_digits on the candidate
PrimeDigitsScan ==
    /\ pc = "scan" /\ op = "prime_by_digits"
    /\ IF StrLen(idx) < arg
       THEN Continue("scan") /\ idx' = idx + 2
       ELSE IF miller_rabin(idx, MILLER_RABIN_DEFAULT_ROUNDS, <<>>)
       THEN Return(idx, TRUE) /\ UNCHANGED idx
       ELSE Continue("scan") /\ idx' = idx + 2
    /\ work' = work + 1
    /\ UNCHANGED <<callVars, a, b, i, benchmark_data, mr, sessionVars>>

\* the tests before the first arithmetic of miller_rabin and baillie_psw,
\* on an argument of any numeric type: "TypeError", "False", "True", or
\* "test" when the witness tests are reached
TrivialChecks ==
    IF OrderCompareRaises(argKind) THEN "TypeError"
    ELSE IF arg < 2 THEN "False"
    ELSE IF arg = 2 THEN "True"
    ELSE IF arg % 2 = 0 THEN "False"
    ELSE "test"

\* miller_rabin(n); pow() with a float operand and a modulus raises
\* TypeError
MillerRabinCall ==
    /\ pc = "call" /\ op = "miller_rabin"
    /\ LET t == TrivialChecks
       IN  IF t = "TypeError" THEN Raise("TypeError") /\ UNCHANGED work
           ELSE IF t # "test" THEN Return(t = "True", FALSE) /\ UNCHANGED work
           ELSE IF argKind = "float"
           THEN Raise("TypeError") /\ work' = work + 1
           ELSE /\ Return(miller_rabin(arg, MILLER_RABIN_DEFAULT_ROUNDS, <<>>),
                          FALSE)
                /\ work' = work + 1
    /\ UNCHANGED <<callVars, loopVars, benchmark_data, mr, sessionVars>>

\* baillie_psw(n)
BailliePSWCall ==
    /\ pc = "call" /\ op = "baillie_psw"
    /\ LET t == TrivialChecks
       IN  IF t = "TypeError" THEN Raise("TypeError") /\ UNCHANGED work
           ELSE IF t # "test" THEN Return(t = "True", FALSE) /\ UNCHANGED work
           ELSE IF argKind = "float"
           THEN Raise("TypeError") /\ work' = work + 1
           ELSE Return(baillie_psw(arg, <<>>), FALSE) /\ work' = work + 1
    /\ UNCHANGED <<callVars, loopVars, benchmark_data, mr, sessionVars>>

(***************************************************************************)
(* miller_rabin on a number given as limbs.  pow(a, d, n) runs one bit of  *)
(* the exponent per step.                                                  *)
(***************************************************************************)
NoFrame ==
    [d |-> IntToBig(0), r |-> 0, bases |-> <<>>, rounds |-> 0, t |-> 0,
     x |-> IntToBig(0), pb |-> IntToBig(0), e |-> IntToBig(0), left |-> 0]

\* the values random.randint(2, n - 2) is let to draw
DrawnBases == {2, 3}

\* miller_rabin(n, k) up to the first witness test; bases is empty in the
\* probabilistic mode
MillerRabinEnter ==
    /\ pc = "call" /\ op = "miller_rabin_limbs"
    /\ IF BigLess(arg, IntToBig(2)) THEN Return(FALSE, FALSE) /\ UNCHANGED mr
       ELSE IF arg = IntToBig(2) THEN Return(TRUE, FALSE) /\ UNCHANGED mr
       ELSE IF arg[1] % 2 = 0 THEN Return(FALSE, FALSE) /\ UNCHANGED mr
       ELSE /\ Continue("base")
            /\ LET dr == BigDecomposeLoop(BigSub(arg, IntToBig(1)), 0)
               IN  mr' = [mr EXCEPT
                             !.d = dr[1], !.r = dr[2], !.t = 1,
                             !.bases = IF BigLess(arg, DETERMINISTIC_LIMIT)
                                       THEN _get_deterministic_bases(arg)
                                       ELSE <<>>]
    /\ UNCHANGED <<callVars, loopVars, work, benchmark_data, sessionVars>>

\* pow(base, d, n) starts: the product is 1 and the exponent is d
StartWitness(base) ==
    mr' = [mr EXCEPT !.x = IntToBig(1), !.pb = IntToBig(base), !.e = mr.d]

\* the head of `for a in bases` and of `for _ in range(k)`: return True
\* after the last base, skip a base >= n, else start the witness test
MillerRabinNextBase ==
    /\ pc = "base" /\ op = "miller_rabin_limbs"
    /\ IF BigLess(arg, DETERMINISTIC_LIMIT)
       THEN IF mr.t > Len(mr.bases)
            THEN Return(TRUE, FALSE) /\ UNCHANGED mr
            ELSE IF ~BigLess(IntToBig(mr.bases[mr.t]), arg)
            THEN Continue("base") /\ mr' = [mr EXCEPT !.t = mr.t + 1]
            ELSE Continue("pow") /\ StartWitness(mr.bases[mr.t])
       ELSE IF mr.t > mr.rounds
            THEN Return(TRUE, FALSE) /\ UNCHANGED mr
            ELSE /\ Continue("pow")
                 /\ \E base \in DrawnBases : StartWitness(base)
    /\ UNCHANGED <<callVars, loopVars, work, benchmark_data, sessionVars>>

\* one bit of the exponent of pow(a, d, n)
MillerRabinPowStep ==
    /\ pc = "pow" /\ op = "miller_rabin_limbs"
    /\ mr.e # IntToBig(0)
    /\ mr' = [mr EXCEPT
                 !.x = IF mr.e[1] % 2 = 1 THEN BigMulMod(mr.x, mr.pb, arg)
                       ELSE mr.x,
                 !.pb = BigMulMod(mr.pb, mr.pb, arg),
                 !.e = BigHalf(mr.e)]
    /\ work' = work + 1
    /\ Continue("pow")
    /\ UNCHANGED <<callVars, loopVars, benchmark_data, sessionVars>>

\* `if x in (1, n - 1): return True`, else the squarings follow
MillerRabinPowDone ==
    /\ pc = "pow" /\ op = "miller_rabin_limbs"
    /\ mr.e = IntToBig(0)
    /\ IF mr.x = IntToBig(1) \/ mr.x = BigSub(arg, IntToBig(1))
       THEN Continue("base") /\ mr' = [mr EXCEPT !.t = mr.t + 1]
       ELSE Continue("square") /\ mr' = [mr EXCEPT !.left = mr.r - 1]
    /\ UNCHANGED <<callVars, loopVars, work, benchmark_data, sessionVars>>

\* one iteration of `for _ in range(r - 1)`; when none is left the witness
\* test is False and miller_rabin returns False
MillerRabinSquare ==
    /\ pc = "square" /\ op = "miller_rabin_limbs"
    /\ IF mr.left <= 0
       THEN Return(FALSE, FALSE) /\ UNCHANGED <<mr, work>>
       ELSE LET y == BigMulMod(mr.x, mr.x, arg)
            IN  /\ work' = work + 1
                /\ IF y = BigSub(arg, IntToBig(1))
                   THEN Continue("base") /\ mr' = [mr EXCEPT !.t = mr.t + 1]
                   ELSE /\ Continue("square")
                        /\ mr' = [mr EXCEPT !.x = y, !.left = mr.left - 1]
    /\ UNCHANGED <<callVars, loopVars, benchmark_data, sessionVars>>

(***************************************************************************)
(* Estimator                                                               *)
(***************************************************************************)
CalcTypes == {"fibonacci", "factorial", "primes", "default"}

\* the inputs of the probes and the times, in milliseconds, they take
SampleInputs == {0, 1, 2}
SampleTimes == {0, 1, 3}

\* the inputs a prediction is asked for
PredictInputs == {-1, 0, 1, 2, 4, 1001}

ProbeLists == UNION {[1..m -> SampleInputs] : m \in 0..MaxSamples}

ProbeOutcomes == {<<>>} \cup {<<t>> : t \in SampleTimes}

\* `type not in benchmark_data or not benchmark_data[type]`
BenchmarkMissing(data, type) ==
    IF type \notin DOMAIN data THEN TRUE ELSE data[type] = <<>>

\* cli._run_benchmark_if_needed: when the type has no samples, probe and
\* store what run_micro_benchmark returns
RunBenchmarkIfNeeded ==
    /\ pc = "idle"
    /\ BenchmarkMissing(benchmark_data, calc_type)
    /\ \E input_values \in ProbeLists :
           \E outcomes \in [1..Len(input_values) -> ProbeOutcomes] :
               benchmark_data' =
                   (calc_type :> run_micro_benchmark(input_values, outcomes))
                   @@ benchmark_data
    /\ UNCHANGED <<pc, callVars, result, err, checked, loopVars, work, mr,
                   sessionVars>>

\* a prediction that sorts the stored list itself
PredictTimeCallSortingInPlace ==
    /\ pc = "idle"
    /\ \E input_value \in PredictInputs :
           LET r == predict_time(benchmark_data, input_value, calc_type)
           IN  /\ op' = "predict_time"
               /\ arg' = input_value
               /\ IF r = <<>> THEN Raise("ValueError")
                  ELSE Return(r[1], FALSE)
    /\ benchmark_data' =
           IF calc_type \in DOMAIN benchmark_data
           THEN [benchmark_data EXCEPT ![calc_type] = SortedByInput(@)]
           ELSE benchmark_data
    /\ UNCHANGED <<argKind, calc_type, loopVars, work, mr, sessionVars>>

\* Estimator.predict_time(input_value, calc_type)
PredictTimeCall ==
    /\ pc = "idle"
    /\ \E input_value \in PredictInputs :
           LET r == predict_time(benchmark_data, input_value, calc_type)
           IN  /\ op' = "predict_time"
               /\ arg' = input_value
               /\ IF r = <<>> THEN Raise("ValueError")
                  ELSE Return(r[1], FALSE)
    /\ UNCHANGED <<argKind, calc_type, loopVars, work, benchmark_data, mr,
                   sessionVars>>

(***************************************************************************)
(* run_micro_benchmark, one call of calculation_func at a time.  probes    *)
(* records how each call made so far ended: <<"return", t>> after t        *)
(* milliseconds or <<"raise", e>> with an exception of class e.            *)
(***************************************************************************)
\* the exceptions (subclasses of Exception) a calculation raises
ProbeErrors == {"InputError", "TimeoutError"}

BenchInputLists == UNION {[1..m -> SampleInputs] : m \in 0..MaxProbes}

\* calculation_func(input_val) returns: the pair is appended to results
ProbeReturns ==
    /\ pc = "loop" /\ op = "run_micro_benchmark"
    /\ Len(probes) < Len(bench_inputs)
    /\ LET input_val == bench_inputs[Len(probes) + 1]
       IN  \E execution_time \in SampleTimes :
               /\ probes' = Append(probes, <<"return", execution_time>>)
               /\ results' = Append(results, <<input_val, execution_time>>)
    /\ Continue("loop")
    /\ UNCHANGED <<callVars, loopVars, work, benchmark_data, mr, bench_inputs,
                   resourceVars, history, cli>>

\* a loop that lets the exception of calculation_func through
ProbeRaisesPropagates ==
    /\ pc = "loop" /\ op = "run_micro_benchmark"
    /\ Len(probes) < Len(bench_inputs)
    /\ \E e \in ProbeErrors :
           /\ probes' = Append(probes, <<"raise", e>>)
           /\ Raise(e)
    /\ UNCHANGED <<callVars, loopVars, work, benchmark_data, mr, bench_inputs,
                   results, resourceVars, history, cli>>

\* calculation_func(input_val) raises: `except Exception: continue`
ProbeRaises ==
    /\ pc = "loop" /\ op = "run_micro_benchmark"
    /\ Len(probes) < Len(bench_inputs)
    /\ \E e \in ProbeErrors : probes' = Append(probes, <<"raise", e>>)
    /\ Continue("loop")
    /\ UNCHANGED <<callVars, loopVars, work, benchmark_data, mr, bench_inputs,
                   results, resourceVars, history, cli>>

\* the loop is over: return results
BenchmarkReturn ==
    /\ pc = "loop" /\ op = "run_micro_benchmark"
    /\ Len(probes) = Len(bench_inputs)
    /\ Return(results, FALSE)
    /\ UNCHANGED <<callVars, loopVars, work, benchmark_data, mr, sessionVars>>

(***************************************************************************)
(* resource_manager.py: a caller makes monitored calls one after the       *)
(* other; each call runs the wrapped function on a worker thread of its    *)
(* own, and a worker the caller has given up on keeps running.             *)
(***************************************************************************)
\* result_container before the worker has written to it
NoContainer == [value |-> "None", exception |-> "None"]

\* a call that has not ended yet
NoOutcome == <<>>

\* the locals of the wrappers before the first call: the number of the call,
\* its argument, the resident memory samples taken, start_time, the deadline
\* of join, what is_alive() answered, the result read from the container
\* and elapsed_time
NoCall ==
    [call |-> 0, args |-> <<>>, samples |-> <<>>, start_time |-> 0,
     deadline |-> 0, join_alive |-> <<>>, alive |-> <<>>, result |-> <<>>,
     elapsed_time |-> <<>>]

\* a worker thread that was never started
NoThread == [state |-> "none", args |-> <<>>]

MAX_MEMORY_GB == 24
\* MAX_MEMORY_GB * 1024 * 1024 * 1024, in limbs
MAX_MEMORY_BYTES ==
    BigMulMod(IntToBig(MAX_MEMORY_GB), IntToBig(1024 * 1024 * 1024),
              <<0, 0, LimbBase>>)
MAX_TIME_SECONDS == 300

\* memory_info.rss as sampled: at the limit and one byte on either side
RssSamples ==
    {BigSub(MAX_MEMORY_BYTES, IntToBig(1)), MAX_MEMORY_BYTES,
     BigAdd(MAX_MEMORY_BYTES, IntToBig(1))}

\* a test that also refuses a resident memory equal to the limit
MemoryExceededInclusive(rss) == ~BigLess(rss, MAX_MEMORY_BYTES)

\* _check_memory_limit raises: memory_info.rss > MAX_MEMORY_BYTES
MemoryExceeded(rss) == BigLess(MAX_MEMORY_BYTES, rss)

\* the arguments <<type, value>> of the monitored calls
CallArgs == {<<"int", -1>>, <<"float", 2>>, <<"int", 3>>, <<"int", 4>>}

\* the body of FactorialCalculator.calculate_by_index under its
\* decorators: <<"raise", e>> or <<"return", n!>>
calculate_by_index(x) ==
    IF ValidateInputsRaises(x[1]) THEN <<"raise", "PrecisionError">>
    ELSE IF x[2] < 0 THEN <<"raise", "InputError">>
    ELSE <<"return", MathFactorial(x[2])>>

\* one container for all the calls
SharedContainer(k) == 1

\* the result_container of call k: a dict created by the call itself
ContainerOf(k) == k

\* an end of _run_with_timeout that reads the value only
ContainerValueOnly(c) == <<"return", c.value>>

\* the end of _run_with_timeout: raise the exception the container holds,
\* or return its value
ContainerOutcome(c) ==
    IF c.exception # "None" THEN <<"raise", c.exception>>
    ELSE <<"return", c.value>>

\* the caller of call k gets o, a value returned or an exception raised
End(k, o) ==
    /\ outcome' = [outcome EXCEPT ![k] = o]
    /\ pc' = "idle"

calcVars ==
    <<callVars, result, err, checked, loopVars, work, benchmark_data, mr>>

\* monitor_memory's wrapper up to the call of func: the first
\* _check_memory_limit()
MonitorMemoryEnter ==
    /\ pc = "idle" /\ op = "monitored_call"
    /\ frame.call < MaxCalls
    /\ \E x \in CallArgs, rss \in RssSamples :
           LET k == frame.call + 1
           IN  /\ frame' = [NoCall EXCEPT !.call = k, !.args = x,
                                          !.samples = <<rss>>]
               /\ IF MemoryExceeded(rss)
                  THEN End(k, <<"raise", "ResourceExhaustedError">>)
                  ELSE pc' = "wrapper" /\ UNCHANGED outcome
    /\ UNCHANGED <<calcVars, benchVars, now, thread, result_container,
                   history, cli>>

\* monitor_timeout's wrapper: start_time = time.time()
MonitorTimeoutEnter ==
    /\ pc = "wrapper"
    /\ frame' = [frame EXCEPT !.start_time = now]
    /\ pc' = "spawn"
    /\ UNCHANGED <<calcVars, benchVars, now, thread, result_container,
                   outcome, history, cli>>

\* _run_with_timeout: the container, thread.start() and the call of
\* thread.join(timeout)
ThreadStart ==
    /\ pc = "spawn"
    /\ result_container' =
           [result_container EXCEPT ![ContainerOf(frame.call)] = NoContainer]
    /\ thread' = [thread EXCEPT ![frame.call] =
                                    [state |-> "running", args |-> frame.args]]
    /\ frame' = [frame EXCEPT !.deadline = now + MAX_TIME_SECONDS]
    /\ pc' = "join"
    /\ UNCHANGED <<calcVars, benchVars, now, outcome, history, cli>>

\* target() on the worker of call k comes to its end, whether the caller
\* still waits for it or not
WorkerFinish(k) ==
    /\ thread[k].state = "running"
    /\ LET r == calculate_by_index(thread[k].args)
       IN  result_container' =
               [result_container EXCEPT ![ContainerOf(k)] =
                   IF r[1] = "return" THEN [@ EXCEPT !.value = r[2]]
                   ELSE [@ EXCEPT !.exception = r[2]]]
    /\ thread' = [thread EXCEPT ![k].state = "finished"]
    /\ UNCHANGED <<pc, calcVars, benchVars, now, outcome, frame, history, cli>>

\* thread.join(timeout) returns: the worker has ended or the timeout is over
JoinReturns ==
    /\ pc = "join"
    /\ thread[frame.call].state = "finished" \/ now >= frame.deadline
    /\ frame' = [frame EXCEPT
                     !.join_alive = <<thread[frame.call].state = "running">>]
    /\ pc' = "is_alive"
    /\ UNCHANGED <<calcVars, benchVars, now, thread, result_container,
                   outcome, history, cli>>

\* `if thread.is_alive(): raise CalculationTimeoutError`
IsAlive ==
    /\ pc = "is_alive"
    /\ LET alive == thread[frame.call].state = "running"
       IN  /\ frame' = [frame EXCEPT !.alive = <<alive>>]
           /\ IF alive
              THEN End(frame.call, <<"raise", "TimeoutError">>)
              ELSE pc' = "read" /\ UNCHANGED outcome
    /\ UNCHANGED <<calcVars, benchVars, now, thread, result_container,
                   history, cli>>

\* the end of _run_with_timeout; an exception goes through both wrappers
\* to the caller
ReadContainer ==
    /\ pc = "read"
    /\ LET o == ContainerOutcome(result_container[ContainerOf(frame.call)])
       IN  IF o[1] = "raise"
           THEN End(frame.call, o) /\ UNCHANGED frame
           ELSE /\ frame' = [frame EXCEPT !.result = <<o[2]>>]
                /\ pc' = "elapsed"
                /\ UNCHANGED outcome
    /\ UNCHANGED <<calcVars, benchVars, now, thread, result_container,
                   history, cli>>

\* monitor_timeout's wrapper after _run_with_timeout has returned
CheckElapsed ==
    /\ pc = "elapsed"
    /\ LET elapsed_time == now - frame.start_time
       IN  /\ frame' = [frame EXCEPT !.elapsed_time = <<elapsed_time>>]
           /\ IF elapsed_time > MAX_TIME_SECONDS
              THEN End(frame.call, <<"raise", "TimeoutError">>)
              ELSE pc' = "mem_after" /\ UNCHANGED outcome
    /\ UNCHANGED <<calcVars, benchVars, now, thread, result_container,
                   history, cli>>

\* monitor_memory's wrapper after func has returned: the second
\* _check_memory_limit() and `return result`
MonitorMemoryExit ==
    /\ pc = "mem_after"
    /\ \E rss \in RssSamples :
           /\ frame' = [frame EXCEPT !.samples = Append(@, rss)]
           /\ IF MemoryExceeded(rss)
              THEN End(frame.call, <<"raise", "ResourceExhaustedError">>)
              ELSE End(frame.call, <<"return", frame.result[1]>>)
    /\ UNCHANGED <<calcVars, benchVars, now, thread, result_container,
                   history, cli>>

\* time passes
Tick ==
    /\ op = "monitored_call"
    /\ now < MaxTicks * TickSeconds
    /\ now' = now + TickSeconds
    /\ UNCHANGED <<pc, calcVars, benchVars, thread, result_container, outcome,
                   frame, history, cli>>

(***************************************************************************)
(* A caller that repeats a call.                                           *)
(***************************************************************************)
\* the call that has ended: its input and what it gave
ThisCall ==
    [op |-> op, argKind |-> argKind, arg |-> arg,
     benchmark_data |-> benchmark_data, err |-> err, result |-> result]

\* the caller keeps the outcome of the call that has ended and makes the
\* next call from a fresh frame: the same entry point with the same
\* argument, or another prediction on the same estimator
CallAgain ==
    /\ pc = "done"
    /\ history = <<>>
    /\ history' = <<ThisCall>>
    /\ pc' = IF op = "predict_time" THEN "idle" ELSE "call"
    /\ result' = NoValue /\ err' = "none" /\ checked' = FALSE
    /\ work' = 0
    /\ idx' = 0 /\ a' = 0 /\ b' = 0 /\ i' = 0
    /\ mr' = [NoFrame EXCEPT !.rounds = mr.rounds]
    /\ UNCHANGED <<callVars, benchmark_data, benchVars, resourceVars, cli>>

(***************************************************************************)
(* cli.py: main.  cli holds the arguments and the locals of one run of    *)
(* the command; the estimator of the run is benchmark_data with the type  *)
(* label calc_type.  Times are in milliseconds.                            *)
(***************************************************************************)
LARGE_DIGIT_THRESHOLD == 10000

NoEstimate == [kind |-> "none", value |-> RatOfInt(0)]

\* float('inf')
Infinite == [kind |-> "inf", value |-> RatOfInt(0)]

NoCli ==
    [pc |-> "none", calculator_type |-> "none",
     index |-> <<>>, min_digits |-> <<>>,
     benchmark |-> FALSE, dry_run |-> FALSE, strict |-> FALSE,
     input_value |-> 0, use_by_index |-> FALSE,
     needs_automatic_estimation |-> FALSE,
     benchmarked |-> FALSE, estimated_time |-> NoEstimate,
     warned |-> FALSE, executed |-> FALSE, exit_code |-> -1]

BENCHMARK_INPUTS ==
    [primes |-> [by_index |-> <<100, 500, 1000, 2000, 5000>>,
                 by_digits |-> <<2, 3, 4, 5, 6>>],
     fibonacci |-> [by_index |-> <<100, 500, 1000, 2000, 5000>>,
                    by_digits |-> <<100, 500, 1000, 2000, 5000>>],
     factorial |-> [by_index |-> <<50, 100, 200, 500, 1000>>,
                    by_digits |-> <<50, 100, 200, 500, 1000>>]]

_get_benchmark_inputs(estimator_calc_type, use_by_index) ==
    IF estimator_calc_type \in DOMAIN BENCHMARK_INPUTS
    THEN IF use_by_index THEN BENCHMARK_INPUTS[estimator_calc_type].by_index
         ELSE BENCHMARK_INPUTS[estimator_calc_type].by_digits
    ELSE <<1, 5, 10, 20, 50>>

\* the calculator types of the runs, the values of --index and of
\* --min-digits, and the times a probe of the benchmark takes
CalculatorTypes == {"fib", "prime"}
IndexValues == {-1, 4, 1001, 50000}
DigitValues == {0, 4, 6}
CliSampleTimes == {1, 10000}

\* _initialize_calculator: the type label of the estimator
EstimatorCalcType(calculator_type) ==
    IF calculator_type = "fib" THEN "fibonacci"
    ELSE IF calculator_type = "fact" THEN "factorial"
    ELSE "primes"

\* _estimate_fibonacci_digits and _estimate_prime_digits on IndexValues
EstimatedDigitsTable ==
    [fib |-> (4 :> 1) @@ (1001 :> 209) @@ (50000 :> 10450),
     prime |-> (4 :> 1) @@ (1001 :> 4) @@ (50000 :> 6)]

estimate_digit_count(calc_type_str, input_value, use_by_index) ==
    IF ~use_by_index THEN input_value
    ELSE EstimatedDigitsTable[calc_type_str][input_value]

\* _validate_inputs raises typer.Exit(code=1)
ValidateInputsExits(index, min_digits) ==
    \/ index # <<>> /\ min_digits # <<>>
    \/ index = <<>> /\ min_digits = <<>>
    \/ index # <<>> /\ index[1] < 0
    \/ min_digits # <<>> /\ min_digits[1] <= 0

_should_run_estimation(benchmark, dry_run, needs_automatic_estimation) ==
    benchmark \/ dry_run \/ needs_automatic_estimation

\* `estimated_time <= MAX_TIME_SECONDS`: the limit is a whole number of
\* milliseconds, so the quotient num / den is compared rounded up
WithinTimeLimit(estimated_time) ==
    /\ estimated_time.kind = "value"
    /\ -((-estimated_time.value[1]) \div estimated_time.value[2])
           <= MAX_TIME_SECONDS * 1000

CliExit(code) == cli' = [cli EXCEPT !.pc = "exit", !.exit_code = code]

cliRest ==
    <<pc, callVars, result, err, checked, loopVars, work, mr, benchVars,
      resourceVars, history>>

\* main up to `if _should_run_estimation(...)`, with estimator = Estimator()
CliMain ==
    /\ cli.pc = "main"
    /\ IF ValidateInputsExits(cli.index, cli.min_digits)
       THEN CliExit(1) /\ UNCHANGED benchmark_data
       ELSE LET use_by_index == cli.index # <<>>
                input_value ==
                    IF use_by_index THEN cli.index[1] ELSE cli.min_digits[1]
                estimated_digits ==
                    estimate_digit_count(cli.calculator_type, input_value,
                                         use_by_index)
                needs_automatic_estimation ==
                    estimated_digits > LARGE_DIGIT_THRESHOLD
                estimation ==
                    _should_run_estimation(cli.benchmark, cli.dry_run,
                                           needs_automatic_estimation)
            IN  /\ cli' = [cli EXCEPT
                             !.input_value = input_value,
                             !.use_by_index = use_by_index,
                             !.needs_automatic_estimation =
                                 needs_automatic_estimation,
                             !.pc = IF estimation THEN "benchmark"
                                    ELSE "execute"]
                /\ benchmark_data' = <<>>
    /\ UNCHANGED cliRest

\* _run_benchmark_if_needed: each probe either raises, and is skipped, or
\* takes one of CliSampleTimes
CliRunBenchmarkIfNeeded ==
    /\ cli.pc = "benchmark"
    /\ IF BenchmarkMissing(benchmark_data, calc_type)
       THEN LET test_inputs ==
                    _get_benchmark_inputs(calc_type, cli.use_by_index)
            IN  \E outcomes \in [1..Len(test_inputs) ->
                                    {<<>>} \cup {<<t>> : t \in CliSampleTimes}] :
                    /\ benchmark_data' =
                           (calc_type :>
                                run_micro_benchmark(test_inputs, outcomes))
                           @@ benchmark_data
                    /\ cli' = [cli EXCEPT !.pc = "predict",
                                          !.benchmarked = TRUE]
       ELSE /\ cli' = [cli EXCEPT !.pc = "predict"]
            /\ UNCHANGED benchmark_data
    /\ UNCHANGED cliRest

\* a prediction whose failure counts as an estimate of zero
PredictFailureAsZero ==
    /\ cli.pc = "predict"
    /\ LET r == predict_time(benchmark_data, cli.input_value, calc_type)
       IN  cli' = [cli EXCEPT
                     !.pc = "check",
                     !.estimated_time =
                         IF r = <<>> THEN [kind |-> "value",
                                           value |-> RatOfInt(0)]
                         ELSE [kind |-> "value", value |-> r[1]]]
    /\ UNCHANGED <<cliRest, benchmark_data>>

\* _predict_estimation_time: the ValueError of predict_time is caught and
\* float('inf') returned
CliPredictEstimationTime ==
    /\ cli.pc = "predict"
    /\ LET r == predict_time(benchmark_data, cli.input_value, calc_type)
       IN  cli' = [cli EXCEPT
                     !.pc = "check",
                     !.estimated_time =
                         IF r = <<>> THEN Infinite
                         ELSE [kind |-> "value", value |-> r[1]]]
    /\ UNCHANGED <<cliRest, benchmark_data>>

\* a check that warns and goes on whatever --strict says
CheckTimeLimitWarnOnly ==
    /\ cli.pc = "check"
    /\ IF WithinTimeLimit(cli.estimated_time)
       THEN cli' = [cli EXCEPT !.pc = "estimated"]
       ELSE cli' = [cli EXCEPT !.pc = "estimated", !.warned = TRUE]
    /\ UNCHANGED <<cliRest, benchmark_data>>

\* _check_time_limit
CliCheckTimeLimit ==
    /\ cli.pc = "check"
    /\ IF WithinTimeLimit(cli.estimated_time)
       THEN cli' = [cli EXCEPT !.pc = "estimated"]
       ELSE IF cli.strict
       THEN CliExit(1)
       ELSE cli' = [cli EXCEPT !.pc = "estimated", !.warned = TRUE]
    /\ UNCHANGED <<cliRest, benchmark_data>>

\* a return from the estimation that goes on to the calculation whatever
\* --dry-run says
AfterEstimationAlwaysExecutes ==
    /\ cli.pc = "estimated"
    /\ cli' = [cli EXCEPT !.pc = "execute"]
    /\ UNCHANGED <<cliRest, benchmark_data>>

\* main after _run_estimation_workflow: `if dry_run: return`
CliAfterEstimation ==
    /\ cli.pc = "estimated"
    /\ IF cli.dry_run
       THEN CliExit(0)
       ELSE cli' = [cli EXCEPT !.pc = "execute"]
    /\ UNCHANGED <<cliRest, benchmark_data>>

\* _execute_calculation, under handle_calculation_errors: the calculation
\* returns, or it raises and the run ends with typer.Exit(code=1)
CliExecuteCalculation ==
    /\ cli.pc = "execute"
    /\ \E returns \in BOOLEAN :
           cli' = [cli EXCEPT !.pc = "exit", !.executed = TRUE,
                              !.exit_code = IF returns THEN 0 ELSE 1]
    /\ UNCHANGED <<cliRest, benchmark_data>>

(***************************************************************************)
(* Specifications.  Each draws the entry point and the argument in Init.   *)
(***************************************************************************)
ArgKinds == {"int", "float", "complex"}

\* no benchmark running
InitBench == bench_inputs = <<>> /\ probes = <<>> /\ results = <<>>

\* no monitored call made yet
InitResource ==
    /\ now = 0
    /\ thread = [k \in 1..MaxCalls |-> NoThread]
    /\ result_container = [k \in 1..MaxCalls |-> NoContainer]
    /\ outcome = [k \in 1..MaxCalls |-> NoOutcome]
    /\ frame = NoCall

InitSession ==
    InitBench /\ InitResource /\ history = <<>> /\ cli = NoCli


InitCall(o, k, v) ==
    /\ pc = "call"
    /\ op = o /\ argKind = k /\ arg = v
    /\ result = NoValue /\ err = "none" /\ checked = FALSE
    /\ work = 0
    /\ idx = 0 /\ a = 0 /\ b = 0 /\ i = 0
    /\ benchmark_data = <<>>
    /\ calc_type = "none"
    /\ mr = NoFrame
    /\ InitSession

\* every entry point of the calculators, with arguments of every type
Init ==
    \E k \in ArgKinds :
        \/ \E v \in (-NegRange)..MaxFibIndex : InitCall("fibonacci_by_index", k, v)
        \/ \E v \in (-NegRange)..MaxSeqDigits : InitCall("fibonacci_by_digits", k, v)
        \/ \E v \in (-NegRange)..MaxFactIndex : InitCall("factorial_by_index", k, v)
        \/ \E v \in (-NegRange)..MaxSeqDigits : InitCall("factorial_by_digits", k, v)
        \/ \E v \in (-NegRange)..MaxPrimeIndex : InitCall("prime_by_index", k, v)
        \/ \E v \in (-NegRange)..MaxPrimeDigits : InitCall("prime_by_digits", k, v)
        \/ \E v \in (-NegRange)..MaxPrimalityN : InitCall("miller_rabin", k, v)
        \/ \E v \in (-NegRange)..MaxPrimalityN : InitCall("baillie_psw", k, v)
        \/ /\ k = "int"
           /\ \E v \in (-NegRange)..MaxFactIndex :
                  \/ InitCall("_binary_splitting_factorial", k, v)
                  \/ InitCall("_custom_factorial_simple", k, v)

Next ==
    \/ FibIndexEnter \/ FibStep \/ FibReturn
    \/ FibDigitsEnter \/ FibDigitsScan
    \/ FactIndexCall \/ BinarySplittingCall \/ SimpleFactorialCall
    \/ FactDigitsEnter \/ FactDigitsScan
    \/ PrimeIndexEnter \/ PrimeIndexSieve
    \/ PrimeDigitsEnter \/ PrimeDigitsScan
    \/ MillerRabinCall \/ BailliePSWCall

Spec == Init /\ [][Next]_vars

\* the search loops of the calculators on arguments of type int.  A call
\* runs in one thread, and the interpreter takes the next step of the call
\* for as long as the call has one: weak fairness of the steps
MaxSearchDigits == 6

InitSearch ==
    \/ \E v \in (-NegRange)..MaxPrimeIndex : InitCall("prime_by_index", "int", v)
    \/ \E v \in (-NegRange)..MaxPrimeDigits :
           InitCall("prime_by_digits", "int", v)
    \/ \E v \in (-NegRange)..MaxSearchDigits :
           \/ InitCall("fibonacci_by_digits", "int", v)
           \/ InitCall("factorial_by_digits", "int", v)

NextSearch ==
    \/ PrimeIndexEnter \/ PrimeIndexSieve
    \/ PrimeDigitsEnter \/ PrimeDigitsScan
    \/ FibDigitsEnter \/ FibDigitsScan
    \/ FactDigitsEnter \/ FactDigitsScan

SpecSearch == InitSearch /\ [][NextSearch]_vars /\ WF_vars(NextSearch)

\* miller_rabin and baillie_psw on the integers below TrialDivisionRange
InitPrimality ==
    \E v \in (-NegRange)..(TrialDivisionRange - 1) :
        \/ InitCall("miller_rabin", "int", v)
        \/ InitCall("baillie_psw", "int", v)

NextPrimality == MillerRabinCall \/ BailliePSWCall

SpecPrimality == InitPrimality /\ [][NextPrimality]_vars

\* calculate_by_index of the primes, on both sides of the sieve threshold
InitPrimeIndex ==
    \E v \in ((-NegRange)..MaxPrimeIndex) \cup DOMAIN LargeUpperBounds :
        InitCall("prime_by_index", "int", v)

NextPrimeIndex == PrimeIndexEnter \/ PrimeIndexSieve

SpecPrimeIndex == InitPrimeIndex /\ [][NextPrimeIndex]_vars

\* factorisations p * q of the numbers miller_rabin is called with, p and
\* q in limbs and each 1 or a prime, and the number of rounds k:
\* 1, 2, an even number, the prime 399165290221, its square, the product
\* 399165290221 * 798330580441 = 318665857834031151167461, and above
\* DETERMINISTIC_LIMIT 1800000000047 * 1800000000083, 3 * 10^24 + 7 and
\* 1300000007197 * 2600000014393 = 3380000037423100103586421, a strong
\* pseudoprime to the base 2 and not to the base 3
Factorisations ==
    {[p |-> <<1, 0, 0>>, q |-> <<1, 0, 0>>, k |-> 40],
     [p |-> <<1, 0, 0>>, q |-> <<2, 0, 0>>, k |-> 40],
     [p |-> <<2, 0, 0>>, q |-> <<165290221, 399, 0>>, k |-> 40],
     [p |-> <<1, 0, 0>>, q |-> <<165290221, 399, 0>>, k |-> 40],
     [p |-> <<165290221, 399, 0>>, q |-> <<165290221, 399, 0>>, k |-> 40],
     [p |-> <<165290221, 399, 0>>, q |-> <<330580441, 798, 0>>, k |-> 40],
     [p |-> <<47, 1800, 0>>, q |-> <<83, 1800, 0>>, k |-> 40],
     [p |-> <<1, 0, 0>>, q |-> <<7, 0, 3000000>>, k |-> 2],
     [p |-> <<7197, 1300, 0>>, q |-> <<14393, 2600, 0>>, k |-> 1]}

\* p * q, for a product below 10^27
BigProduct(p, q) == BigMulMod(p, q, <<0, 0, LimbBase>>)

\* miller_rabin(n, k) for n = p * q
InitLimbs ==
    \E f \in Factorisations :
        /\ pc = "call"
        /\ op = "miller_rabin_limbs" /\ argKind = "int"
        /\ arg = BigProduct(f.p, f.q)
        /\ calc_type = "none"
        /\ result = NoValue /\ err = "none" /\ checked = FALSE
        /\ work = 0
        /\ idx = 0 /\ a = 0 /\ b = 0 /\ i = 0
        /\ benchmark_data = <<>>
        /\ mr = [NoFrame EXCEPT !.rounds = f.k]
        /\ InitSession

NextLimbs ==
    \/ MillerRabinEnter \/ MillerRabinNextBase
    \/ MillerRabinPowStep \/ MillerRabinPowDone \/ MillerRabinSquare

SpecLimbs == InitLimbs /\ [][NextLimbs]_vars

\* an estimator from its construction on: benchmarks and predictions for
\* one type label
InitEstimator ==
    \E t \in CalcTypes :
        /\ pc = "idle"
        /\ op = "Estimator" /\ argKind = "int" /\ arg = 0
        /\ calc_type = t
        /\ result = NoValue /\ err = "none" /\ checked = FALSE
        /\ work = 0
        /\ idx = 0 /\ a = 0 /\ b = 0 /\ i = 0
        /\ benchmark_data = <<>>
        /\ mr = NoFrame
        /\ InitSession

NextEstimator == RunBenchmarkIfNeeded \/ PredictTimeCall

SpecEstimator == InitEstimator /\ [][NextEstimator]_vars

\* run_micro_benchmark(calculation_func, input_values) for every list of
\* inputs
InitBenchmark ==
    \E values \in BenchInputLists :
        /\ pc = "loop"
        /\ op = "run_micro_benchmark" /\ argKind = "int" /\ arg = 0
        /\ calc_type = "none"
        /\ result = NoValue /\ err = "none" /\ checked = FALSE
        /\ work = 0
        /\ idx = 0 /\ a = 0 /\ b = 0 /\ i = 0
        /\ benchmark_data = <<>>
        /\ mr = NoFrame
        /\ bench_inputs = values /\ probes = <<>> /\ results = <<>>
        /\ InitResource
        /\ history = <<>> /\ cli = NoCli

NextBenchmark == ProbeReturns \/ ProbeRaises \/ BenchmarkReturn

SpecBenchmark == InitBenchmark /\ [][NextBenchmark]_vars

\* a caller that makes up to MaxCalls calls of a function decorated with
\* @monitor_memory @monitor_timeout
InitMonitored ==
    /\ pc = "idle"
    /\ op = "monitored_call" /\ argKind = "int" /\ arg = 0
    /\ calc_type = "none"
    /\ result = NoValue /\ err = "none" /\ checked = FALSE
    /\ work = 0
    /\ idx = 0 /\ a = 0 /\ b = 0 /\ i = 0
    /\ benchmark_data = <<>>
    /\ mr = NoFrame
    /\ InitSession

NextMonitored ==
    \/ MonitorMemoryEnter \/ MonitorTimeoutEnter \/ ThreadStart
    \/ \E k \in 1..MaxCalls : WorkerFinish(k)
    \/ JoinReturns \/ IsAlive \/ ReadContainer \/ CheckElapsed
    \/ MonitorMemoryExit \/ Tick

SpecMonitored == InitMonitored /\ [][NextMonitored]_vars

\* every core entry point, called and then called again
InitRepeat == Init \/ InitLimbs \/ InitEstimator

NextRepeat == Next \/ NextLimbs \/ NextEstimator \/ CallAgain

SpecRepeat == InitRepeat /\ [][NextRepeat]_vars

(***************************************************************************)
(* The helpers of PrimeCalculator called on their own.  The arguments of   *)
(* a helper with several parameters are the tuple arg.                     *)
(***************************************************************************)
MaxJacobiA == 12
MaxJacobiN == 25
MaxFindN == 120
MaxLucasK == 20
MaxLucasN == 9
MaxLucasP == 2
MaxLucasQ == 2
MaxWitnessN == 40
MaxRounds == 2
MaxSieveLimit == 130

\* _jacobi_symbol(a, n) with arg = (a, n)
JacobiCall ==
    /\ pc = "call" /\ op = "_jacobi_symbol"
    /\ Return(_jacobi_symbol(arg[1], arg[2]), FALSE)
    /\ work' = work + 1
    /\ UNCHANGED <<callVars, loopVars, benchmark_data, mr, sessionVars>>

\* _find_lucas_d(n)
FindLucasDCall ==
    /\ pc = "call" /\ op = "_find_lucas_d"
    /\ Return(_find_lucas_d(arg), FALSE)
    /\ work' = work + 1
    /\ UNCHANGED <<callVars, loopVars, benchmark_data, mr, sessionVars>>

\* _lucas_sequence_iterative(p, q, k, n) with arg = (p, q, k, n), up to the
\* loop over the bits of k: a, b hold u, v, idx holds q_power and i is the
\* position of the next bit
LucasEnter ==
    /\ pc = "call" /\ op = "_lucas_sequence_iterative"
    /\ LET p == arg[1]
           q == arg[2]
           k == arg[3]
           n == arg[4]
       IN  IF k = 0
           THEN Return(<<0, 2 % n>>, FALSE) /\ UNCHANGED loopVars
           ELSE IF k = 1
           THEN Return(<<1 % n, p % n>>, FALSE) /\ UNCHANGED loopVars
           ELSE /\ Continue("bits")
                /\ a' = 1 % n /\ b' = p % n
                /\ idx' = q % n
                /\ i' = BitLength(k) - 2
    /\ UNCHANGED <<callVars, work, benchmark_data, mr, sessionVars>>

\* one iteration of `for bit in k_bits`
LucasStep ==
    /\ pc = "bits" /\ op = "_lucas_sequence_iterative"
    /\ i >= 0
    /\ LET p == arg[1]
           q == arg[2]
           k == arg[3]
           n == arg[4]
           dbl == _lucas_double_with_q(a, b, p, q, idx, n)
       IN  IF BitAt(k, i) = 1
           THEN LET nx == _lucas_next(dbl[1], dbl[2], p, q, n)
                IN  /\ a' = nx[1] /\ b' = nx[2]
                    /\ idx' = (dbl[3] * q) % n
           ELSE a' = dbl[1] /\ b' = dbl[2] /\ idx' = dbl[3]
    /\ i' = i - 1
    /\ work' = work + 1
    /\ Continue("bits")
    /\ UNCHANGED <<callVars, benchmark_data, mr, sessionVars>>

\* return (u, v)
LucasReturn ==
    /\ pc = "bits" /\ op = "_lucas_sequence_iterative"
    /\ i < 0
    /\ Return(<<a, b>>, FALSE)
    /\ UNCHANGED <<callVars, loopVars, work, benchmark_data, mr, sessionVars>>

\* _miller_rabin_witness(n, a) with arg = (n, a)
WitnessCall ==
    /\ pc = "call" /\ op = "_miller_rabin_witness"
    /\ Return(_miller_rabin_witness(arg[1], arg[2]), FALSE)
    /\ work' = work + 1
    /\ UNCHANGED <<callVars, loopVars, benchmark_data, mr, sessionVars>>

\* _miller_rabin_probabilistic(n, k) with arg = (n, k, draws): draws are
\* the values random.randint(2, n - 2) returns, in the order of the rounds
ProbabilisticCall ==
    /\ pc = "call" /\ op = "_miller_rabin_probabilistic"
    /\ Return(_miller_rabin_probabilistic(arg[1], arg[2], arg[3]), FALSE)
    /\ work' = work + 1
    /\ UNCHANGED <<callVars, loopVars, benchmark_data, mr, sessionVars>>

\* _compute_segmented_sieve(limit)
SegmentedSieveCall ==
    /\ pc = "call" /\ op = "_compute_segmented_sieve"
    /\ Return(_compute_segmented_sieve(arg), FALSE)
    /\ work' = work + 1
    /\ UNCHANGED <<callVars, loopVars, benchmark_data, mr, sessionVars>>

\* the sequences of k values drawn from s
Draws(k, s) == [1..k -> s]

InitHelpers ==
    \/ \E x \in (-MaxJacobiA)..MaxJacobiA, n \in (-NegRange)..MaxJacobiN :
           InitCall("_jacobi_symbol", "int", <<x, n>>)
    \/ \E n \in 3..MaxFindN : InitCall("_find_lucas_d", "int", n)
    \/ \E p \in (-1)..MaxLucasP, q \in (-MaxLucasQ)..MaxLucasQ,
          k \in 0..MaxLucasK, n \in 1..MaxLucasN :
           InitCall("_lucas_sequence_iterative", "int", <<p, q, k, n>>)
    \/ \E n \in 2..MaxWitnessN : \E base \in 1..(n - 1) :
           InitCall("_miller_rabin_witness", "int", <<n, base>>)
    \/ \E n \in 4..MaxWitnessN, k \in 0..MaxRounds :
           \E draws \in Draws(k, 2..(n - 2)) :
               InitCall("_miller_rabin_probabilistic", "int", <<n, k, draws>>)
    \/ \E n \in (-NegRange)..MaxWitnessN : InitCall("miller_rabin", "int", n)
    \/ \E limit \in 2..MaxSieveLimit :
           InitCall("_compute_segmented_sieve", "int", limit)

NextHelpers ==
    \/ JacobiCall \/ FindLucasDCall
    \/ LucasEnter \/ LucasStep \/ LucasReturn
    \/ WitnessCall \/ ProbabilisticCall \/ MillerRabinCall
    \/ SegmentedSieveCall

SpecHelpers == InitHelpers /\ [][NextHelpers]_vars

\* one run of the command line for each choice of the arguments.  The
\* prime calculator is run with --min-digits only: the regression over the
\* by_index samples of the primes needs more than 32 bits
InitCli ==
    \E ct \in CalculatorTypes,
       index \in {<<>>} \cup {<<v>> : v \in IndexValues},
       min_digits \in {<<>>} \cup {<<v>> : v \in DigitValues},
       benchmark \in BOOLEAN, dry_run \in BOOLEAN, strict \in BOOLEAN :
        /\ ct = "prime" => index = <<>>
        /\ pc = "cli"
        /\ op = "main" /\ argKind = "int" /\ arg = 0
        /\ calc_type = EstimatorCalcType(ct)
        /\ result = NoValue /\ err = "none" /\ checked = FALSE
        /\ work = 0
        /\ idx = 0 /\ a = 0 /\ b = 0 /\ i = 0
        /\ benchmark_data = <<>>
        /\ mr = NoFrame
        /\ InitBench /\ InitResource /\ history = <<>>
        /\ cli = [NoCli EXCEPT !.pc = "main", !.calculator_type = ct,
                               !.index = index, !.min_digits = min_digits,
                               !.benchmark = benchmark, !.dry_run = dry_run,
                               !.strict = strict]

NextCli ==
    \/ CliMain \/ CliRunBenchmarkIfNeeded \/ CliPredictEstimationTime
    \/ CliCheckTimeLimit \/ CliAfterEstimation \/ CliExecuteCalculation

SpecCli == InitCli /\ [][NextCli]_vars

\* the runs of the command line, and an estimator whose benchmark and
\* predictions are called on their own
InitEstimation == InitCli \/ InitEstimator

NextEstimation == NextCli \/ NextEstimator

SpecEstimation == InitEstimation /\ [][NextEstimation]_vars

(***************************************************************************)
(* Reference definitions the claims are stated with.                       *)
(***************************************************************************)
\* q is prime: trial division
IsPrime(q) == q >= 2 /\ \A k \in 2..Isqrt(q) : q % k # 0

\* the number of primes <= m
PrimeCount(m) == Cardinality({q \in 2..m : IsPrime(q)})

RECURSIVE FibPair(_)
\* (F(n), F(n+1)) by the recurrence F(0)=0, F(1)=1, F(k)=F(k-1)+F(k-2)
FibPair(n) ==
    IF n = 0 THEN <<0, 1>>
    ELSE LET p == FibPair(n - 1) IN <<p[2], p[1] + p[2]>>

Fib(n) == FibPair(n)[1]

RECURSIVE ProductOneTo(_)
\* 1 * 2 * ... * n, the empty product being 1
ProductOneTo(n) == IF n <= 0 THEN 1 ELSE ProductOneTo(n - 1) * n

\* the number of decimal digits of x >= 0
DigitCount(x) ==
    IF x >= 10 ^ 9 THEN 10
    ELSE CHOOSE k \in 1..9 : x < 10 ^ k /\ (k = 1 \/ x >= 10 ^ (k - 1))

Done(o) == pc = "done" /\ op = o

Valid(least) == argKind = "int" /\ arg >= least

\* the Legendre symbol (x/p) of an odd prime p: 0 when p divides x, 1 when
\* x is a square modulo p, -1 otherwise
Legendre(x, p) ==
    IF x % p = 0 THEN 0
    ELSE IF \E y \in 1..(p - 1) : (y * y) % p = x % p THEN 1
    ELSE -1

RECURSIVE JacobiRef(_, _)
\* the Jacobi symbol (x/n) of an odd n > 0: the product of the Legendre
\* symbols over the prime factors of n, each with its multiplicity; the
\* empty product, (x/1), is 1
JacobiRef(x, n) ==
    IF n = 1 THEN 1
    ELSE LET p == CHOOSE f \in 2..n :
                      n % f = 0 /\ \A g \in 2..(f - 1) : n % g # 0
         IN  Legendre(x, p) * JacobiRef(x, n \div p)

\* the candidates 5, -7, 9, -11, ...: number k, from 0
SelfridgeCandidate(k) == (IF k % 2 = 0 THEN 1 ELSE -1) * (5 + 2 * k)

\* the first candidate of that sequence, among the first
\* JACOBI_SEARCH_LIMIT, whose Jacobi symbol is -1, as an Optional
SelfridgeD(n) ==
    LET ks == {k \in 0..(JACOBI_SEARCH_LIMIT - 1) :
                   JacobiRef(SelfridgeCandidate(k), n) = -1}
    IN  IF ks = {} THEN <<>>
        ELSE <<SelfridgeCandidate(CHOOSE k \in ks : \A m \in ks : k <= m)>>

RECURSIVE LucasRef(_, _, _, _)
\* (U_j, U_j+1, V_j, V_j+1) modulo n of the recurrence U_0 = 0, U_1 = 1,
\* V_0 = 2, V_1 = P, X_j+1 = P * X_j - Q * X_j-1
LucasRef(p, q, j, n) ==
    IF j = 0 THEN <<0, 1 % n, 2 % n, p % n>>
    ELSE LET r == LucasRef(p, q, j - 1, n)
         IN  <<r[2], (p * r[2] - q * r[1]) % n,
               r[4], (p * r[4] - q * r[3]) % n>>

RECURSIVE PowerRef(_, _, _)
\* q^j modulo n
PowerRef(q, j, n) ==
    IF j = 0 THEN 1 % n ELSE (PowerRef(q, j - 1, n) * q) % n

\* the run has made its estimate
Estimated == cli.estimated_time.kind # "none"

\* the estimate of the run is above MAX_TIME_SECONDS
OverLimit == Estimated /\ ~WithinTimeLimit(cli.estimated_time)

\* the run is past _check_time_limit
PastCheck == cli.pc \in {"estimated", "execute", "exit"}

\* the run has ended and it was not _validate_inputs that ended it
RanToEnd ==
    cli.pc = "exit" /\ ~ValidateInputsExits(cli.index, cli.min_digits)

(***************************************************************************)
(* Claims                                                                  *)
(***************************************************************************)

\* C1: for every n >= 1, PrimeCalculator.calculate_by_index(n) returns the
\* n-th prime of 2, 3, 5, 7, ..., whichever sieve path the estimated upper
\* bound selects.
C1_NthPrime ==
    (Done("prime_by_index") /\ Valid(1)) =>
        /\ err = "none"
        /\ IsPrime(result)
        /\ PrimeCount(result) = arg

\* C2: for every integer n below the deterministic threshold 3*10^24,
\* miller_rabin(n) returns true if and only if n is prime.  Here n = p * q
\* with p and q each 1 or a prime, so n is prime exactly when p = 1 and
\* q is not 1.
C2_ExactBelowLimit ==
    \A f \in Factorisations :
        (/\ Done("miller_rabin_limbs")
         /\ arg = BigProduct(f.p, f.q)
         /\ BigLess(arg, DETERMINISTIC_LIMIT)) =>
            /\ err = "none"
            /\ result = (f.p = IntToBig(1) /\ f.q # IntToBig(1))

\* C3: for every integer n < 10,000, baillie_psw(n) returns the same answer
\* as trial division, and it equals miller_rabin(n).
C3_AgreesWithTrialDivision ==
    /\ Done("miller_rabin") => (err = "none" /\ result = IsPrime(arg))
    /\ Done("baillie_psw") =>
           /\ err = "none"
           /\ result = IsPrime(arg)
           /\ result = miller_rabin(arg, MILLER_RABIN_DEFAULT_ROUNDS, <<>>)

\* C3 witness: baillie_psw has rejected the Carmichael number 561
C3_Witness ==
    Done("baillie_psw") /\ arg = 561 /\ err = "none" /\ result = FALSE

\* C4: for every n >= 0, FibonacciCalculator.calculate_by_index(n) equals
\* F(n) of the recurrence F(0)=0, F(1)=1, F(k)=F(k-1)+F(k-2).
C4_FibonacciByIndex ==
    (Done("fibonacci_by_index") /\ Valid(0)) =>
        (err = "none" /\ result = Fib(arg))

\* C4 witness: the fast doubling loop has returned F(43)
C4_Witness ==
    /\ Done("fibonacci_by_index") /\ arg = 43 /\ err = "none"
    /\ result = 433494437 /\ work > 0

\* C5: for every n >= 0, the binary-splitting factorial returns the same
\* integer as the naive iterative factorial and as the product 1*2*...*n.
C5_BinarySplittingEqualsNaive ==
    /\ (Done("_binary_splitting_factorial") /\ arg >= 0) =>
           /\ err = "none"
           /\ result = _custom_factorial_simple(arg)
           /\ result = ProductOneTo(arg)
    /\ (Done("_custom_factorial_simple") /\ arg >= 0) =>
           /\ err = "none"
           /\ result = _binary_splitting_factorial(arg)
           /\ result = ProductOneTo(arg)

\* C5 witness: binary splitting has returned 10!
C5_Witness ==
    /\ Done("_binary_splitting_factorial") /\ arg = 10 /\ err = "none"
    /\ result = 3628800

\* the value is the first member of the sequence f with at least d digits;
\* the search stops at the index the scan has reached
FirstWithDigits(value, d, f(_), maxIndex) ==
    \E n \in 0..maxIndex :
        /\ value = f(n)
        /\ DigitCount(value) >= d
        /\ \A m \in 0..(n - 1) : DigitCount(f(m)) < d

\* C6: for every d >= 1, the factorial and the Fibonacci calculate_by_digits(d)
\* return calculate_by_index(n*) for the least index n* whose value has at
\* least d decimal digits.
C6_ByDigitsLeastIndex ==
    /\ (Done("factorial_by_digits") /\ Valid(1)) =>
           /\ err = "none"
           /\ FirstWithDigits(result, arg, ProductOneTo, idx)
    /\ (Done("fibonacci_by_digits") /\ Valid(1)) =>
           /\ err = "none"
           /\ FirstWithDigits(result, arg, Fib, idx)

\* C6 witness: the Fibonacci scan for two digits has returned 13 = F(7)
C6_Witness ==
    /\ Done("fibonacci_by_digits") /\ arg = 2 /\ err = "none"
    /\ result = 13 /\ idx = 7

LeastArg ==
    [o \in {"fibonacci_by_index", "factorial_by_index"} |-> 0]
    @@ [o \in {"prime_by_index", "fibonacci_by_digits",
               "factorial_by_digits", "prime_by_digits"} |-> 1]

\* C8: every by_index/by_digits entry point raises InputError for an
\* out-of-range integer argument, before any step of the computation has
\* been executed.
C8_InputErrorBeforeWork ==
    (/\ op \in DOMAIN LeastArg
     /\ argKind = "int"
     /\ arg < LeastArg[op]) =>
        /\ work = 0
        /\ pc \in {"call", "done"}
        /\ pc = "done" => (err = "InputError" /\ result = NoValue)

\* C8 witness: prime calculate_by_index(0) has raised InputError
C8_Witness ==
    Done("prime_by_index") /\ arg = 0 /\ err = "InputError" /\ work = 0

\* C9: every public entry point of the core rejects a float or a complex
\* argument with PrecisionError, and every value an engine call returns has
\* passed the float/complex result check.
C9_PrecisionGuard ==
    /\ (pc = "done" /\ argKind \in {"float", "complex"}) =>
           err = "PrecisionError"
    /\ (pc = "done" /\ op \in DOMAIN LeastArg /\ err = "none") => checked

\* C10: Estimator.predict_time raises an error, and returns no number,
\* whenever zero samples exist for the type: when the type key is absent
\* from benchmark_data and when it is present with an empty sample list.
C10_NoSamplesRaises ==
    (/\ Done("predict_time")
     /\ IF calc_type \in DOMAIN benchmark_data
        THEN benchmark_data[calc_type] = <<>>
        ELSE TRUE) =>
        (err = "ValueError" /\ result = NoValue)

\* C10 witness: a prediction was asked for a type whose benchmark kept no
\* sample, and it raised
C10_Witness ==
    /\ Done("predict_time")
    /\ calc_type \in DOMAIN benchmark_data
    /\ benchmark_data[calc_type] = <<>>
    /\ err = "ValueError"


\* the samples stored for the type of the run, <<>> when the key is absent
Samples ==
    IF calc_type \in DOMAIN benchmark_data THEN benchmark_data[calc_type]
    ELSE <<>>

\* C11: with exactly one sample (n0, t0) stored for a type, predict_time
\* returns t0 * (input / n0) when n0 # 0 and t0 when n0 = 0, for every type
\* label, no complexity transform being applied; in particular the
\* prediction for 2 * n0 is 2 * t0 when n0 > 0.
C11_SingleSampleScaling ==
    (Done("predict_time") /\ Len(Samples) = 1) =>
        LET n0 == Samples[1][1]
            t0 == RatOfInt(Samples[1][2])
        IN  /\ err = "none"
            /\ n0 # 0 => result = RatMul(t0, Rat(arg, n0))
            /\ n0 = 0 => result = t0
            /\ (n0 > 0 /\ arg = 2 * n0) => result = RatMul(RatOfInt(2), t0)

\* C11 witness: the factorial type holds the one sample (2, 3 ms) and the
\* prediction for 4 is 6 ms
C11_Witness ==
    /\ Done("predict_time") /\ calc_type = "factorial"
    /\ Samples = <<(<<2, 3>>)>>
    /\ arg = 4 /\ err = "none" /\ result = <<6, 1>>


\* the raw regression value r of the call: what _predict_by_type returns
\* for the stored samples, sorted by input, and the input of the call
RawRegression ==
    LET sorted_points == SortedByInput(Samples)
    IN  _predict_by_type(calc_type,
                         [k \in 1..Len(sorted_points) |-> sorted_points[k][1]],
                         [k \in 1..Len(sorted_points) |->
                             RatOfInt(sorted_points[k][2])],
                         arg)

\* x >= y
RatGeq(x, y) == ~RatLess(x, y)

\* C12: with two or more samples for a type, predict_time returns a value
\* that is >= 0 for every input and >= 0.001 whenever the input is above
\* 1000; when the raw regression value r is >= 0.001, or the input is
\* <= 1000 and r >= 0, the returned value is exactly r.
C12_RegressionClamp ==
    (Done("predict_time") /\ Len(Samples) >= 2) =>
        /\ err = "none"
        /\ RatGeq(result, RatOfInt(0))
        /\ arg > 1000 => RatGeq(result, RatOfInt(1))
        /\ RatGeq(RawRegression, RatOfInt(1)) => result = RawRegression
        /\ (arg <= 1000 /\ RatGeq(RawRegression, RatOfInt(0))) =>
               result = RawRegression

\* C12 witness: two samples whose regression falls below zero at 1001, and
\* the prediction is one millisecond
C12_Witness ==
    /\ Done("predict_time") /\ Len(Samples) = 2
    /\ arg = 1001 /\ err = "none"
    /\ RatLess(RawRegression, RatOfInt(0))
    /\ result = RatOfInt(1)


\* C13: the value predict_time returns is clamped to be non-negative on
\* every path: for any stored sample set with at least one sample, exactly
\* one included, and any integer input, zero and negative inputs included,
\* the returned prediction is >= 0.
C13_NonNegativeOnEveryPath ==
    (Done("predict_time") /\ Len(Samples) >= 1) =>
        (err = "none" /\ RatGeq(result, RatOfInt(0)))


\* the positions of the inputs on which calculation_func returned normally
ReturnedProbes ==
    SelectSeq([k \in 1..Len(probes) |-> k],
              LAMBDA k : probes[k][1] = "return")

\* C14: run_micro_benchmark never propagates an error raised by the
\* calculation: it returns one (input, elapsed) pair for exactly those
\* inputs on which the calculation returned normally, in the order of the
\* inputs; an input on which it fails is skipped and every later input is
\* still executed.
C14_FailedProbeSkipped ==
    op = "run_micro_benchmark" =>
        /\ err = "none"
        /\ pc = "done" =>
               /\ Len(probes) = Len(bench_inputs)
               /\ Len(result) = Len(ReturnedProbes)
               /\ \A j \in 1..Len(result) :
                      result[j] = <<bench_inputs[ReturnedProbes[j]],
                                    probes[ReturnedProbes[j]][2]>>
               /\ result =
                      run_micro_benchmark(
                          bench_inputs,
                          [k \in 1..Len(probes) |->
                              IF probes[k][1] = "return"
                              THEN <<probes[k][2]>> ELSE <<>>])

\* C14 witness: of three probes the second raised InputError; the first and
\* the third are in the list returned
C14_Witness ==
    /\ Done("run_micro_benchmark") /\ err = "none"
    /\ bench_inputs = <<0, 1, 2>>
    /\ probes = <<(<<"return", 1>>), (<<"raise", "InputError">>),
                  (<<"return", 3>>)>>
    /\ result = <<(<<0, 1>>), (<<2, 3>>)>>


\* the monitored call the caller made last has ended
Ended == frame.call > 0 /\ outcome[frame.call] # NoOutcome

TimedOut == <<"raise", "TimeoutError">>

\* C15: a call through monitor_timeout returns the value of the wrapped
\* function only if the worker finished within the MAX_TIME_SECONDS budget
\* and the measured elapsed time is not greater than MAX_TIME_SECONDS; in
\* every other case, the worker still alive at the join deadline or
\* finished with an elapsed time above MAX_TIME_SECONDS, the caller gets
\* TimeoutError and no result value.
C15_ValueOnlyWithinBudget ==
    (Ended /\ frame.join_alive # <<>>) =>
        /\ outcome[frame.call][1] = "return" =>
               /\ frame.join_alive = <<FALSE>>
               /\ frame.elapsed_time # <<>>
               /\ frame.elapsed_time[1] <= MAX_TIME_SECONDS
        /\ frame.join_alive = <<TRUE>> => outcome[frame.call] = TimedOut
        /\ (frame.elapsed_time # <<>>
            /\ frame.elapsed_time[1] > MAX_TIME_SECONDS) =>
               outcome[frame.call] = TimedOut

\* what call k got is what its own worker produced
OwnOutcome(k) ==
    outcome[k] \in {NoOutcome, TimedOut,
                    <<"raise", "ResourceExhaustedError">>,
                    calculate_by_index(thread[k].args)}

\* C16: after _run_with_timeout has raised TimeoutError to the caller, the
\* abandoned worker may keep running, but what it produces later, a value
\* or an exception written to its container, is observed neither by that
\* caller nor by a later call: each call has one outcome, which a late
\* completion neither changes nor passes to another call.
C16_LateCompletionUnobserved ==
    /\ [](\A k \in 1..MaxCalls : thread[k].state # "none" => OwnOutcome(k))
    /\ [][\A k \in 1..MaxCalls :
              outcome[k] # NoOutcome => outcome'[k] = outcome[k]]_vars

\* C16 witness: the first call timed out and its worker then wrote 3! to
\* its container; the second call, of 4, has returned 4!
C16_Witness ==
    /\ outcome[1] = TimedOut
    /\ thread[1] = [state |-> "finished", args |-> <<"int", 3>>]
    /\ result_container[1].value = 6
    /\ thread[2].args = <<"int", 4>>
    /\ outcome[2] = <<"return", 24>>

\* C17: an exception raised inside a function wrapped by monitor_memory
\* and monitor_timeout, in the worker thread, reaches the caller as that
\* same exception when memory and time are within the limits: it is not
\* swallowed, not retried and not replaced by a value or by another error.
C17_ExceptionReachesCaller ==
    (/\ Ended
     /\ frame.alive = <<FALSE>>
     /\ calculate_by_index(frame.args)[1] = "raise") =>
        /\ outcome[frame.call] = calculate_by_index(frame.args)
        /\ thread[frame.call].state = "finished"
        /\ Len(frame.samples) = 1

\* C17 witness: the call with a float argument has ended with the
\* PrecisionError its worker raised
C17_Witness ==
    /\ Ended
    /\ frame.args = <<"float", 2>>
    /\ result_container[frame.call].exception = "PrecisionError"
    /\ outcome[frame.call] = <<"raise", "PrecisionError">>

\* C18: monitor_memory raises ResourceExhaustedError exactly when the
\* sampled resident memory is strictly greater than MAX_MEMORY_BYTES, a
\* sample equal to it being allowed; when the check before the call fails
\* the wrapped function is never executed, and when the check after the
\* call fails the computed result is discarded and not returned.
C18_MemoryLimitStrict ==
    Ended =>
        /\ outcome[frame.call] = <<"raise", "ResourceExhaustedError">>
               <=> \E j \in 1..Len(frame.samples) :
                       BigLess(MAX_MEMORY_BYTES, frame.samples[j])
        /\ BigLess(MAX_MEMORY_BYTES, frame.samples[1]) =>
               /\ thread[frame.call].state = "none"
               /\ Len(frame.samples) = 1
        /\ (/\ Len(frame.samples) = 2
            /\ BigLess(MAX_MEMORY_BYTES, frame.samples[2])) =>
               /\ frame.result # <<>>
               /\ outcome[frame.call][1] # "return"

\* C18 witness: the memory was at the limit before the call and one byte
\* above it after: 3! was computed and ResourceExhaustedError raised
C18_Witness ==
    /\ Ended
    /\ frame.samples = <<MAX_MEMORY_BYTES,
                         BigAdd(MAX_MEMORY_BYTES, IntToBig(1))>>
    /\ frame.result = <<6>>
    /\ outcome[frame.call] = <<"raise", "ResourceExhaustedError">>


\* C20: predict_time never changes the stored samples of the estimator:
\* after any call, successful or failing, benchmark_data holds the same keys
\* and, for each key, the same samples in the same order as before the
\* call; the sorting done for the regression works on a copy.
C20_PredictLeavesSamples ==
    [][(op' = "predict_time" /\ pc = "idle" /\ pc' = "done") =>
           /\ DOMAIN benchmark_data' = DOMAIN benchmark_data
           /\ \A type \in DOMAIN benchmark_data :
                  benchmark_data'[type] = benchmark_data[type]]_vars

\* C20 witness: a regression over two samples stored in descending order of
\* input has returned, and they are still in that order
C20_Witness ==
    /\ Done("predict_time") /\ err = "none"
    /\ Samples = <<(<<2, 1>>), (<<1, 3>>)>>
    /\ arg = 4 /\ result = <<0, 1>>


\* C19: repeated calls of any core entry point (by_index, by_digits,
\* miller_rabin, baillie_psw, predict_time on an unchanged sample set) with
\* identical input return identical results, whatever calls were made
\* before and whatever random bases the probabilistic mode of Miller-Rabin
\* draws.
C19_RepeatableResults ==
    (/\ pc = "done"
     /\ history # <<>>
     /\ history[1].op = op
     /\ history[1].argKind = argKind
     /\ history[1].arg = arg
     /\ history[1].benchmark_data = benchmark_data) =>
        /\ history[1].err = err
        /\ history[1].result = result

\* C26: for every odd n > 0 and every integer a, _jacobi_symbol(a, n) is
\* the Jacobi symbol (a/n), the product of the Legendre symbols over the
\* prime factors of n: 0 exactly when gcd(a, n) > 1, otherwise 1 or -1; for
\* an even or non-positive n it returns 0.
C26_JacobiSymbol ==
    Done("_jacobi_symbol") =>
        /\ err = "none"
        /\ IF arg[2] > 0 /\ arg[2] % 2 = 1
           THEN /\ result = JacobiRef(arg[1], arg[2])
                /\ result \in {-1, 0, 1}
                /\ (result = 0) <=> (Gcd(Abs(arg[1]), arg[2]) > 1)
           ELSE result = 0

\* C23: for every odd n > 2 that passes the strong test to base 2, the D
\* that baillie_psw gets from _find_lucas_d is the first of 5, -7, 9, -11,
\* ... whose Jacobi symbol (D/n) is -1, so that (1 - D) is a multiple of 4
\* and the strong Lucas test runs with P = 1, Q = (1 - D) / 4; there is no
\* D only when the bounded search finds none.
C23_SelfridgeOrder ==
    (/\ Done("_find_lucas_d")
     /\ arg > 2 /\ arg % 2 = 1
     /\ _miller_rabin_witness(arg, 2)) =>
        /\ err = "none"
        /\ result = SelfridgeD(arg)
        /\ result # <<>> => Len(_compute_lucas_params(result[1])) = 2

\* C24: for every limit >= 2, _compute_segmented_sieve(limit) returns
\* exactly the primes <= limit, each once, in strictly increasing order:
\* the list _simple_sieve(limit) returns.
C24_SegmentedSieve ==
    Done("_compute_segmented_sieve") =>
        /\ err = "none"
        /\ result = SelectSeq(RangeSeq(2, arg), IsPrime)
        /\ result = _simple_sieve(arg)

\* C27: for every odd modulus n >= 3, every k >= 0 and parameters P, Q,
\* _lucas_sequence_iterative(P, Q, k, n) returns (U_k mod n, V_k mod n) of
\* the Lucas recurrence, and before and after each iteration of the binary
\* method u, v and q_power are U_j, V_j and Q^j modulo n, j being the
\* number formed by the bits of k handled so far.
C27_LucasSequence ==
    (/\ op = "_lucas_sequence_iterative"
     /\ arg[4] >= 3 /\ arg[4] % 2 = 1) =>
        LET p == arg[1]
            q == arg[2]
            k == arg[3]
            n == arg[4]
        IN  /\ pc = "bits" =>
                  LET j == k \div (2 ^ (i + 1))
                      r == LucasRef(p, q, j, n)
                  IN  /\ a = r[1] /\ b = r[3]
                      /\ idx = PowerRef(q, j, n)
            /\ pc = "done" =>
                  LET r == LucasRef(p, q, k, n)
                  IN  err = "none" /\ result = <<r[1], r[3]>>

\* C27 witness: U_13 and V_13 of P = 1, Q = -2 modulo 9, after the three
\* iterations for the bits 1, 0, 1
C27_Witness ==
    /\ Done("_lucas_sequence_iterative")
    /\ arg = <<1, -2, 13, 9>>
    /\ work = 3
    /\ result = <<4, 1>>

\* C28: miller_rabin never reports a prime as composite: for every prime n
\* the witness test is true for every base a with 1 <= a <= n - 1, the
\* probabilistic rounds are true for every number of rounds k >= 0 and
\* whatever bases are drawn, and miller_rabin(n) is true.
C28_PrimesPass ==
    /\ (Done("_miller_rabin_witness") /\ IsPrime(arg[1])) =>
           (err = "none" /\ result = TRUE)
    /\ (Done("_miller_rabin_probabilistic") /\ IsPrime(arg[1])) =>
           (err = "none" /\ result = TRUE)
    /\ (Done("miller_rabin") /\ argKind = "int" /\ IsPrime(arg)) =>
           (err = "none" /\ result = TRUE)

\* C28 witness: the prime 13 passed the test to base 2 through a squaring
\* (2^3 = 8 is neither 1 nor 12, 8^2 = 12 modulo 13), and two rounds with
\* the drawn bases 5 and 7 accepted the prime 37
C28_Witness ==
    \/ /\ Done("_miller_rabin_witness")
       /\ arg = <<13, 2>>
       /\ ~WitnessWithoutSquarings(13, 2)
       /\ result = TRUE
    \/ /\ Done("_miller_rabin_probabilistic")
       /\ arg = <<37, 2, <<5, 7>>>>
       /\ result = TRUE

\* C25: fast-doubling loop invariant: for every n >= 2, before and after
\* each iteration of _fast_doubling the pair (a, b) is (F(m), F(m+1)),
\* where m = n >> (i + 1) is the number formed by the bits of n handled so
\* far (i is the position of the next bit, -1 at exit); at exit m = n and
\* the value returned is a = F(n).
C25_FastDoublingInvariant ==
    /\ (op = "fibonacci_by_index" /\ pc = "loop") =>
           LET m == arg \div (2 ^ (i + 1))
           IN  /\ arg >= 2 /\ m >= 1
               /\ <<a, b>> = FibPair(m)
               /\ i < 0 => (m = arg /\ a = Fib(arg))
    /\ (Done("fibonacci_by_index") /\ Valid(2)) =>
           (err = "none" /\ result = a /\ a = Fib(arg) /\ i = -1)

\* C25 witness: of n = 37 = 100101b the bits 1, 0, 0, 1 are handled, the
\* last of them set: m = 9 and the pair is (F(9), F(10)) = (34, 55)
C25_Witness ==
    /\ op = "fibonacci_by_index" /\ pc = "loop"
    /\ arg = 37 /\ i = 1 /\ work = 3
    /\ a = 34 /\ b = 55

\* C29: every search loop of the engines ends on valid input: for every
\* n >= 1 the bound-growing loop of the prime calculate_by_index ends with
\* at least n primes found, and for every d >= 1 the forward scans of the
\* factorial, Fibonacci and prime calculate_by_digits reach a value with
\* at least d digits (for primes, one that passes the test) after finitely
\* many steps.
C29_SearchLoopsTerminate ==
    /\ (pc = "call" /\ op = "prime_by_index" /\ Valid(1)) ~>
           (/\ Done("prime_by_index") /\ err = "none"
            /\ arg > 1 => Len(_segmented_sieve(idx)) >= arg)
    /\ (pc = "call" /\ op = "factorial_by_digits" /\ Valid(1)) ~>
           (/\ Done("factorial_by_digits") /\ err = "none"
            /\ StrLen(result) >= arg)
    /\ (pc = "call" /\ op = "fibonacci_by_digits" /\ Valid(1)) ~>
           (/\ Done("fibonacci_by_digits") /\ err = "none"
            /\ StrLen(result) >= arg)
    /\ (pc = "call" /\ op = "prime_by_digits" /\ Valid(1)) ~>
           (/\ Done("prime_by_digits") /\ err = "none"
            /\ StrLen(result) >= arg
            /\ miller_rabin(result, MILLER_RABIN_DEFAULT_ROUNDS, <<>>))

\* C29 witness: the Fibonacci scan for six digits went through the
\* indices 0..26 and ended at F(26) = 121393
C29_Witness ==
    /\ Done("fibonacci_by_digits") /\ arg = 6 /\ err = "none"
    /\ idx = 26 /\ work = 27 /\ result = 121393

\* C21: in the command-line flow, a run with --dry-run goes through the
\* estimation (the benchmark if needed, then the prediction) and never
\* reaches _execute_calculation, whatever the other flags and the estimate.
C21_DryRunNeverExecutes ==
    cli.dry_run =>
        /\ cli.pc # "execute" /\ ~cli.executed
        /\ RanToEnd => (cli.benchmarked /\ Estimated)

\* C21 witness: a dry run without --strict whose estimate was above the
\* limit has ended with exit code 0, after the benchmark, the prediction
\* and the warning, and without the calculation
C21_Witness ==
    /\ cli.dry_run /\ ~cli.strict
    /\ cli.pc = "exit" /\ cli.exit_code = 0
    /\ cli.benchmarked /\ cli.estimated_time.kind = "value"
    /\ cli.warned /\ ~cli.executed

\* C22: in the command-line flow, when the estimation runs with --strict
\* and the estimated time is above MAX_TIME_SECONDS, the run ends with a
\* non-zero exit code and the calculation is never called; without --strict
\* the same estimate gives a warning only and the calculation is still
\* called, unless --dry-run is given.
C22_StrictAborts ==
    /\ (cli.strict /\ OverLimit /\ cli.pc # "check") =>
           (cli.pc = "exit" /\ cli.exit_code # 0 /\ ~cli.executed)
    /\ (~cli.strict /\ OverLimit /\ PastCheck) =>
           /\ cli.warned
           /\ cli.pc = "exit" => (cli.executed <=> ~cli.dry_run)
           /\ (cli.pc = "exit" /\ cli.dry_run) => cli.exit_code = 0

\* C22 witness: with --strict and --index 50000 the only probe that ended
\* took 10 s for the index 100; the estimate is 5000 s and the run ended
\* with exit code 1 before the calculation
C22_Witness ==
    /\ cli.strict /\ cli.pc = "exit" /\ cli.exit_code = 1
    /\ cli.input_value = 50000
    /\ benchmark_data[calc_type] = <<<<100, 10000>>>>
    /\ cli.estimated_time = [kind |-> "value", value |-> RatOfInt(5000000)]
    /\ ~cli.executed

\* C30: in the estimation flow of the command line a failed prediction is
\* an unbounded estimate: when the benchmark kept no sample the error of
\* predict_time is caught and the estimated time is infinite, so that with
\* --strict the run ends before the calculation and without --strict it is
\* warned and goes on; and the benchmark is run only when the estimator has
\* no samples for the type.
C30_FailedPredictionIsUnbounded ==
    /\ [](Estimated =>
              /\ (cli.estimated_time = Infinite)
                     <=> BenchmarkMissing(benchmark_data, calc_type)
              /\ (cli.estimated_time = Infinite /\ PastCheck) =>
                     IF cli.strict
                     THEN /\ cli.pc = "exit" /\ cli.exit_code = 1
                          /\ ~cli.executed
                     ELSE /\ cli.warned
                          /\ cli.pc = "exit" =>
                                 (cli.executed <=> ~cli.dry_run))
    /\ [][(calc_type \in DOMAIN benchmark_data'
           /\ benchmark_data' # benchmark_data) =>
              BenchmarkMissing(benchmark_data, calc_type)]_vars

\* C30 witness: every probe of the benchmark failed, the estimate is
\* infinite and the run with --strict has ended with exit code 1 without
\* the calculation
C30_Witness ==
    /\ cli.strict /\ cli.pc = "exit" /\ cli.exit_code = 1
    /\ cli.benchmarked /\ benchmark_data[calc_type] = <<>>
    /\ cli.estimated_time = Infinite
    /\ ~cli.executed

=============================================================================
